---- MODULE Spec2Model ----
(***************************************************************************)
(* Hospital-management dashboard: the Express handlers of server.js over   *)
(* the MySQL schema of hospital.mysql.sql.                                 *)
(*                                                                         *)
(* The store is the relational state (patients, doctors, bills,            *)
(* billing_items and their AUTO_INCREMENT counters).  Every request is     *)
(* handled by an async handler; the handler's code between two awaited     *)
(* statements is one step, executed together with the statement it issues. *)
(* A statement sent through query() runs in autocommit mode and is atomic; *)
(* the server runs with the default strict SQL mode, so a value that is    *)
(* out of range for its column fails the statement.                        *)
(*                                                                         *)
(* Strings are sequences of one-character strings, JavaScript numbers are  *)
(* signed fixed-point values with three decimals (plus NaN and the         *)
(* infinities), DECIMAL(10,2) values are (whole, cents) pairs.             *)
(***************************************************************************)
EXTENDS Integers, Sequences, FiniteSets

(***************************************************************************)
(* Bounds of the model.                                                    *)
(***************************************************************************)
\* handler activations that can be in flight at the same time
NumRequests == 2
\* number of INSERT statements (into any table) the model lets reach the engine
MaxInserts == 3
\* number of clock advances the model follows
MaxTicks == 1

(***************************************************************************)
(* Strings.                                                                *)
(***************************************************************************)
LowerLetters ==
  <<"a","b","c","d","e","f","g","h","i","j","k","l","m",
    "n","o","p","q","r","s","t","u","v","w","x","y","z">>

UpperLetters ==
  <<"A","B","C","D","E","F","G","H","I","J","K","L","M",
    "N","O","P","Q","R","S","T","U","V","W","X","Y","Z">>

DigitChars == <<"0","1","2","3","4","5","6","7","8","9">>

IsSpace(c) == c \in {" ", "\t", "\n"}

IsDigit(c) == \E i \in 1..10 : DigitChars[i] = c

DigitVal(c) == (CHOOSE i \in 1..10 : DigitChars[i] = c) - 1

ToUpperChar(c) ==
  IF \E i \in 1..26 : LowerLetters[i] = c
    THEN UpperLetters[CHOOSE i \in 1..26 : LowerLetters[i] = c]
    ELSE c

ToLowerChar(c) ==
  IF \E i \in 1..26 : UpperLetters[i] = c
    THEN LowerLetters[CHOOSE i \in 1..26 : UpperLetters[i] = c]
    ELSE c

\* String.prototype.toUpperCase
ToUpperCase(s) == [i \in 1..Len(s) |-> ToUpperChar(s[i])]

\* String.prototype.toLowerCase
ToLowerCase(s) == [i \in 1..Len(s) |-> ToLowerChar(s[i])]

RECURSIVE TrimStart(_)
TrimStart(s) ==
  IF s # <<>> /\ IsSpace(Head(s)) THEN TrimStart(Tail(s)) ELSE s

RECURSIVE TrimEnd(_)
TrimEnd(s) ==
  IF s # <<>> /\ IsSpace(s[Len(s)]) THEN TrimEnd(SubSeq(s, 1, Len(s) - 1)) ELSE s

\* String.prototype.trim
Trim(s) == TrimEnd(TrimStart(s))

\* String.prototype.slice(0, n)
SliceTo(s, n) == SubSeq(s, 1, IF Len(s) < n THEN Len(s) ELSE n)

\* String.prototype.slice(-n)
SliceLast(s, n) == SubSeq(s, (IF Len(s) < n THEN 0 ELSE Len(s) - n) + 1, Len(s))

RECURSIVE NatToStr(_)
NatToStr(n) ==
  IF n < 10 THEN <<DigitChars[n + 1]>>
  ELSE NatToStr(n \div 10) \o <<DigitChars[(n % 10) + 1]>>

RECURSIVE DigitsToNat(_)
DigitsToNat(s) ==
  IF s = <<>> THEN 0 ELSE 10 * DigitsToNat(SubSeq(s, 1, Len(s) - 1)) + DigitVal(s[Len(s)])

AllDigits(s) == s # <<>> /\ \A i \in 1..Len(s) : IsDigit(s[i])

(***************************************************************************)
(* JavaScript numbers and JSON values.                                     *)
(***************************************************************************)
\* a finite number is (-1)^neg * (w + m/1000); zero is never negative
Fin(neg, w, m) == [k |-> "fin", neg |-> neg /\ (w # 0 \/ m # 0), w |-> w, m |-> m]

NaN == [k |-> "nan", neg |-> FALSE, w |-> 0, m |-> 0]

PosInf == [k |-> "inf", neg |-> FALSE, w |-> 0, m |-> 0]

NegInf == [k |-> "inf", neg |-> TRUE, w |-> 0, m |-> 0]

JsInt(n) == IF n < 0 THEN Fin(TRUE, 0 - n, 0) ELSE Fin(FALSE, n, 0)

IsFinite(x) == x.k = "fin"

IsZero(x) == x.k = "fin" /\ x.w = 0 /\ x.m = 0

\* x < y on numbers; false as soon as one side is NaN
Less(x, y) ==
  /\ x.k # "nan"
  /\ y.k # "nan"
  /\ x # y
  /\ IF x.k = "inf" THEN x.neg
     ELSE IF y.k = "inf" THEN ~y.neg
     ELSE IF x.neg # y.neg THEN x.neg
     ELSE IF x.neg
       THEN (y.w < x.w) \/ (y.w = x.w /\ y.m < x.m)
       ELSE (x.w < y.w) \/ (x.w = y.w /\ x.m < y.m)

\* Math.min / Math.max of two arguments: NaN when either argument is NaN
MathMin(x, y) == IF x.k = "nan" \/ y.k = "nan" THEN NaN ELSE IF Less(y, x) THEN y ELSE x

MathMax(x, y) == IF x.k = "nan" \/ y.k = "nan" THEN NaN ELSE IF Less(x, y) THEN y ELSE x

\* JSON values of a request body; a missing property is Undef
Undef == [t |-> "undef", n |-> NaN, s |-> <<>>]

Null == [t |-> "null", n |-> NaN, s |-> <<>>]

Bool(b) == [t |-> "bool", n |-> IF b THEN JsInt(1) ELSE JsInt(0), s |-> <<>>]

Num(x) == [t |-> "num", n |-> x, s |-> <<>>]

Str(s) == [t |-> "str", n |-> NaN, s |-> s]

\* ToBoolean, as used by `v || d` and `!v`
Truthy(v) ==
  CASE v.t = "undef" -> FALSE
    [] v.t = "null" -> FALSE
    [] v.t = "bool" -> v.n = JsInt(1)
    [] v.t = "num" -> ~(v.n.k = "nan" \/ IsZero(v.n))
    [] v.t = "str" -> v.s # <<>>

\* v || d
OrElse(v, d) == IF Truthy(v) THEN v ELSE d

InfinityLit == <<"I","n","f","i","n","i","t","y">>

\* -x
Negate(x) ==
  IF x.k = "nan" THEN NaN
  ELSE IF x.k = "inf" THEN (IF x.neg THEN PosInf ELSE NegInf)
  ELSE Fin(~x.neg, x.w, x.m)

\* the numeric value of an unsigned literal: digits, digits with one '.' and
\* at most three decimals, or Infinity
UnsignedToNumber(t) ==
  LET dots == {i \in 1..Len(t) : t[i] = "."} IN
    IF AllDigits(t) THEN JsInt(DigitsToNat(t))
    ELSE IF t = InfinityLit THEN PosInf
    ELSE IF Cardinality(dots) = 1
      THEN LET d == CHOOSE i \in dots : TRUE
               a == SubSeq(t, 1, d - 1)
               b == SubSeq(t, d + 1, Len(t))
           IN IF /\ (a # <<>> \/ b # <<>>)
                 /\ (a = <<>> \/ AllDigits(a))
                 /\ (b = <<>> \/ AllDigits(b))
                 /\ Len(b) <= 3
                THEN Fin(FALSE, DigitsToNat(a),
                         DigitsToNat(b \o [i \in 1..(3 - Len(b)) |-> "0"]))
                ELSE NaN
    ELSE NaN

\* Number(string) for strings without exponent or radix prefix
StringToNumber(s) ==
  LET t == Trim(s) IN
    IF t = <<>> THEN JsInt(0)
    ELSE IF Head(t) = "-" THEN Negate(UnsignedToNumber(Tail(t)))
    ELSE IF Head(t) = "+" THEN UnsignedToNumber(Tail(t))
    ELSE UnsignedToNumber(t)

\* Number(v)
ToNumber(v) ==
  CASE v.t = "undef" -> NaN
    [] v.t = "null" -> JsInt(0)
    [] v.t = "bool" -> v.n
    [] v.t = "num" -> v.n
    [] v.t = "str" -> StringToNumber(v.s)

\* String(v) for the values String() is applied to: strings, booleans and
\* whole numbers
JsString(v) ==
  CASE v.t = "str" -> v.s
    [] v.t = "bool" -> IF v.n = JsInt(1) THEN <<"t","r","u","e">> ELSE <<"f","a","l","s","e">>
    [] v.t = "num" -> (IF v.n.neg THEN <<"-">> ELSE <<>>) \o NatToStr(v.n.w)
    [] OTHER -> <<>>

\* isNonEmptyString
isNonEmptyString(v) == v.t = "str" /\ Len(Trim(v.s)) > 0

\* pickEnum without its toLowerCase()
pickEnumExact(value, allowed, fallback) ==
  LET v == JsString(OrElse(value, Str(<<>>)))
  IN IF v \in allowed THEN v ELSE fallback

\* pickEnum
pickEnum(value, allowed, fallback) ==
  LET v == ToLowerCase(JsString(OrElse(value, Str(<<>>)))) IN
    IF v \in allowed THEN v ELSE fallback

(***************************************************************************)
(* Column types of the store.                                              *)
(***************************************************************************)
\* SQL NULL in a string column
NullStr == <<"NULL">>

\* largest whole part of a DECIMAL(10,2) value (99999999.99)
DecMaxWhole == 99999999

\* lower and upper limit of the qty clamp
QtyMin == 1

QtyMax == 100000

\* upper limit of the LIMIT of the patient and doctor lists, and the limits
\* used when the request names none
LimitMax == 100

PatientsLimit == 10

DoctorsLimit == 20

\* LIMIT 50 of the billing list
BillingLimit == 50

Dec(w, c) == [over |-> FALSE, w |-> w, c |-> c]

\* an exact value above 99999999.99
DecOver == [over |-> TRUE, w |-> 0, c |-> 0]

DecZero == Dec(0, 0)

\* exact decimal addition
DecAdd(a, b) ==
  IF a.over \/ b.over THEN DecOver
  ELSE LET w == a.w + b.w + ((a.c + b.c) \div 100) IN
         IF w > DecMaxWhole THEN DecOver ELSE Dec(w, (a.c + b.c) % 100)

\* i.qty * i.unit_price, exact, for qty >= 1
DecTimes(qty, price) ==
  IF price.over \/ price.w > DecMaxWhole \div qty THEN DecOver
  ELSE LET w == qty * price.w + ((qty * price.c) \div 100) IN
         IF w > DecMaxWhole THEN DecOver ELSE Dec(w, (qty * price.c) % 100)

\* a number parameter (sent as a double) assigned to an INT column: the values
\* the column can end up with.  The number is rounded to the nearest integer,
\* a tie to either neighbour (the server's C library decides); NaN and the
\* infinities have no value, the statement fails.
ToIntColumn(x) ==
  IF x.k # "fin" THEN {}
  ELSE LET all == IF x.m < 500 THEN {x.w} ELSE IF x.m > 500 THEN {x.w + 1}
                  ELSE {x.w, x.w + 1}
       IN {IF x.neg THEN 0 - r ELSE r : r \in all}

\* a finite number parameter >= 0 assigned to a DECIMAL(10,2) column: the
\* values the column can end up with.  The third decimal is rounded away; the
\* parameter travels as a double, which lies on either side of a decimal tie,
\* so a tie goes either way.  Out of range: no value, the statement fails.
ToDecimalColumn(x) ==
  LET c == x.m \div 10
      r == x.m % 10
      down == IF x.w > DecMaxWhole THEN DecOver ELSE Dec(x.w, c)
      up == IF c = 99
              THEN (IF x.w + 1 > DecMaxWhole THEN DecOver ELSE Dec(x.w + 1, 0))
              ELSE (IF x.w > DecMaxWhole THEN DecOver ELSE Dec(x.w, c + 1))
      all == IF r < 5 THEN {down} ELSE IF r > 5 THEN {up} ELSE {down, up}
  IN {d \in all : ~d.over}

(***************************************************************************)
(* The store and the requests.                                             *)
(***************************************************************************)
VARIABLES
  patients,       \* patients table: id -> row
  doctors,        \* doctors table: id -> row
  bills,          \* bills table: id -> row
  items,          \* billing_items table: id -> row
  autoInc,        \* AUTO_INCREMENT counter of each of the four tables
  now,            \* Date.now(), as hi * 10^6 + lo milliseconds
  ticks,          \* clock advances so far
  pc,             \* per handler activation: where it stands
  req,            \* per handler activation: the request and its locals
  resp,           \* per handler activation: the response it sent
  ui              \* the billing page of the browser UI

store == <<patients, doctors, bills, items, autoInc>>

vars == <<patients, doctors, bills, items, autoInc, now, ticks, pc, req, resp, ui>>

Requests == 1..NumRequests

\* the departments of the seed; no endpoint writes this table
Departments == 1..6

Stable == <<"s","t","a","b","l","e">>

Female == <<"f","e","m","a","l","e">>

Male == <<"m","a","l","e">>

Available == <<"a","v","a","i","l","a","b","l","e">>

OnDuty == <<"o","n","_","d","u","t","y">>

OnRounds == <<"o","n","_","r","o","u","n","d","s">>

SeedPatients ==
  [i \in 1..5 |->
     [patient_code |-> <<"P","-","1","0","9">> \o NatToStr(43 - i),
      full_name |-> << <<"A","m","i","n","a"," ","H",".">>,
                       <<"K","a","r","i","m"," ","S",".">>,
                       <<"L","e","i","l","a"," ","M",".">>,
                       <<"Y","o","u","s","s","e","f"," ","O",".">>,
                       <<"N","a","d","i","a"," ","F",".">> >>[i],
      dob |-> NullStr,
      gender |-> <<Female, Male, Female, Male, Female>>[i],
      phone |-> NullStr,
      status |-> <<Stable, <<"o","b","s","e","r","v","a","t","i","o","n">>,
                   <<"t","e","s","t","i","n","g">>,
                   <<"c","r","i","t","i","c","a","l">>, Stable>>[i]]]

SeedDoctors ==
  [i \in 1..4 |->
     [department_id |-> <<1, 3, 5, 2>>[i],
      full_name |-> << <<"D","r","."," ","S","e","l","i","m"," ","R",".">>,
                       <<"D","r","."," ","I","m","e","n","e"," ","K",".">>,
                       <<"D","r","."," ","Y","a","c","i","n","e"," ","B",".">>,
                       <<"D","r","."," ","M","e","r","i","e","m"," ","A",".">> >>[i],
      specialty |-> << <<"C","a","r","d","i","o","l","o","g","y">>,
                       <<"P","a","t","h","o","l","o","g","y">>,
                       <<"P","e","d","i","a","t","r","i","c","s">>,
                       <<"O","r","t","h","o","p","e","d","i","c","s">> >>[i],
      email |-> NullStr,   \* the seed's addresses are not carried
      phone |-> NullStr,
      status |-> <<OnDuty, OnDuty, OnRounds, OnDuty>>[i]]]

SeedBillNo == <<"B","I","L","L","-","2","0","2","6","-","0","0","0","1">>

SeedDate == <<"2","0","2","6","-","1","1","-","0","1">>

Unpaid == <<"u","n","p","a","i","d">>

BillStatuses ==
  {Unpaid, <<"p","a","i","d">>,
   <<"p","a","r","t","i","a","l","l","y","_","p","a","i","d">>, <<"v","o","i","d">>}

SeedItems ==
  [i \in 1..2 |->
     [bill_id |-> 1,
      description |-> << <<"C","o","n","s","u","l","t","a","t","i","o","n"," ","f","e","e">>,
                         <<"E","C","G">> >>[i],
      qty |-> 1,
      unit_price |-> <<Dec(2500, 0), Dec(1800, 0)>>[i]]]

\* SELECT COALESCE(SUM(i.qty * i.unit_price), 0) FROM billing_items i
\* WHERE i.bill_id = b, over the rows with the ids in ids
RECURSIVE SumOver(_, _, _)
SumOver(its, ids, b) ==
  IF ids = {} THEN DecZero
  ELSE LET i == CHOOSE j \in ids : TRUE
           rest == SumOver(its, ids \ {i}, b)
       IN IF its[i].bill_id = b
            THEN DecAdd(DecTimes(its[i].qty, its[i].unit_price), rest)
            ELSE rest

ItemsTotal(its, b) == SumOver(its, DOMAIN its, b)

\* the seed: bill 1 with two items, its total recomputed by the seed's UPDATE
SeedBills ==
  [i \in 1..1 |->
     [patient_id |-> 1, bill_no |-> SeedBillNo, bill_date |-> SeedDate,
      currency |-> <<"D","Z","D">>,
      total_amount |-> ItemsTotal(SeedItems, 1),
      status |-> Unpaid]]

(***************************************************************************)
(* The clock.                                                              *)
(***************************************************************************)
\* one millisecond before 2027-01-01T00:00:00Z
StartNow == [hi |-> 1798761, lo |-> 599999]

Million == 1000000

\* the clock moves by one millisecond or by 10^6 of them
TickSteps == {1, Million}

Advance(t, d) ==
  [hi |-> t.hi + ((t.lo + d) \div Million), lo |-> (t.lo + d) % Million]

\* new Date().getFullYear() over the interval the model follows
FullYear(t) ==
  IF t.hi < 1798761 \/ (t.hi = 1798761 /\ t.lo < 600000) THEN 2026 ELSE 2027

\* CURDATE() over the interval the model follows
CurDate(t) ==
  IF FullYear(t) = 2026 THEN <<"2","0","2","6","-","1","2","-","3","1">>
  ELSE <<"2","0","2","7","-","0","1","-","0","1">>

ZeroPad(s, n) == [i \in 1..(n - Len(s)) |-> "0"] \o s

\* String(Date.now())
NowString(t) == NatToStr(t.hi) \o ZeroPad(NatToStr(t.lo), 6)

\* generateBillNo
generateBillNo(t) ==
  LET yyyy == FullYear(t)
      suffix == SliceLast(NowString(t), 6)
  IN <<"B","I","L","L","-">> \o NatToStr(yyyy) \o <<"-">> \o suffix

\* the values Math.floor(10000 + Math.random() * 90000) is followed for
RandomDraws == {10942, 55555}

\* generatePatientCode, for the draw n
generatePatientCode(n) == <<"P","-">> \o NatToStr(n)

(***************************************************************************)
(* Requests and responses.                                                 *)
(***************************************************************************)
BodyFields ==
  {"full_name", "patient_code", "gender", "status", "phone", "dob",
   "department_id", "specialty", "email",
   "patient_id", "currency", "bill_no", "bill_date", "total_amount",
   "bill_id", "description", "qty", "unit_price"}

EmptyBody == [f \in BodyFields |-> Undef]

\* the parameters of the query string the handlers read
QueryFields == {"limit", "billId", "day"}

EmptyQuery == [f \in QueryFields |-> Undef]

\* method, path, query and body: the request; op: the route that handles it;
\* billId, qty, unitPrice, insertId: the locals of POST /api/billing/items
\* that are set once its INSERT has been issued (billId also that of
\* GET /api/billing/items); lq: that of the two list handlers with a limit
\* bodyError: the error express.json() raised on the body, if any
\* stmts: the statements the handler has passed to query(), in order, each
\* with its outcome (ok: query() returned; otherwise it threw)
NoReq == [op |-> "none", method |-> "", path |-> "", query |-> EmptyQuery,
          body |-> EmptyBody, bodyError |-> "", billId |-> NaN, qty |-> NaN,
          unitPrice |-> NaN, insertId |-> 0, lq |-> NaN, stmts |-> <<>>]

\* status 0: nothing sent; cache: the Cache-Control header; rows: the JSON
\* array of a list response
NoResp == [status |-> 0, cache |-> "", id |-> 0, bill_no |-> <<>>,
           patient_code |-> <<>>, rows |-> <<>>, error |-> "", hint |-> ""]

NoStore == "no-store"

\* no handler of the page is suspended (k: where the handler is; billId and
\* billNo: the bill whose items it fetches; created: the id of `created`, the
\* local of the Add Bill handler, while that handler is refreshing the page)
NoAwait == [k |-> "none", billId |-> 0, billNo |-> <<>>, created |-> 0]

\* the billing page once the script has run: selectedBillId and selectedBillNo
\* are null (0 and <<>>), the bills table and the items list are empty.
\* table: the data-bill-id of the rows in #billingTable; subtitle: the bill
\* number in "Items for ..." (<<>>: "Select a bill to view details.");
\* shown: the rows of the items list and shownFor: the billId of the fetch
\* that brought them; await: per request in flight, the handler of the page
\* suspended on it with its locals; todo: the fetch a handler that has just
\* been resumed issues next
PageOpened ==
  [selectedBillId |-> 0, selectedBillNo |-> <<>>, table |-> <<>>,
   subtitle |-> <<>>, shown |-> <<>>, shownFor |-> 0,
   await |-> [p \in 1..NumRequests |-> NoAwait], todo |-> NoAwait]

\* res.status(201).set("Cache-Control", "no-store").json({...})
Created(id, billNo, code) ==
  [status |-> 201, cache |-> NoStore, id |-> id, bill_no |-> billNo,
   patient_code |-> code, rows |-> <<>>, error |-> "", hint |-> ""]

\* res.json(rows), the header left out
OkCacheable(rows) == [NoResp EXCEPT !.status = 200, !.rows = rows]

\* res.set("Cache-Control", "no-store").json(rows)
Ok(rows) == [NoResp EXCEPT !.status = 200, !.cache = NoStore, !.rows = rows]

\* apiError(res, status, { error: msg, hint: hint })
apiError(status, msg, hint) ==
  [NoResp EXCEPT !.status = status, !.cache = NoStore, !.error = msg, !.hint = hint]

\* apiError(res, 400, { error: msg })
BadRequest(msg) == apiError(400, msg, "")

\* a payload that passes the cause of the failure on
dbErrorPayloadOfCause == [error |-> "ER_NO_REFERENCED_ROW_2", hint |-> ""]

\* dbErrorPayload
dbErrorPayload ==
  [error |-> "Database error",
   hint |-> "Check DB_* settings in .env and ensure hospital.mysql.sql is imported."]

\* apiError(res, 500, dbErrorPayload())
DbError == apiError(500, dbErrorPayload.error, dbErrorPayload.hint)

(***************************************************************************)
(* Routing: app.get / app.post register a route under "METHOD path"; Express*)
(* serves a HEAD request by the GET route of its path.                     *)
(***************************************************************************)
GetPaths ==
  {"/api/health", "/api/stats", "/api/patients", "/api/appointments", "/api/doctors",
   "/api/departments", "/api/pharmacy", "/api/laboratory", "/api/billing",
   "/api/billing/items"}

PostPaths == {"/api/patients", "/api/doctors", "/api/billing", "/api/billing/items"}

\* the fourteen routes
Routes ==
  [method : {"GET"}, path : GetPaths] \cup [method : {"POST"}, path : PostPaths]

OpOf(route) == route.method \o " " \o route.path

MethodOf(op) == (CHOOSE r \in Routes : OpOf(r) = op).method

PathOf(op) == (CHOOSE r \in Routes : OpOf(r) = op).path

\* app.use("/api", ...): the requests that reach no route
Api404 == "API 404"

\* a dispatch on the path alone
RouteByPath(method, path) ==
  IF path \in GetPaths THEN "GET " \o path
  ELSE IF path \in PostPaths THEN "POST " \o path
  ELSE Api404

\* the route Express dispatches the request line to
Route(method, path) ==
  LET m == IF method = "HEAD" THEN "GET" ELSE method
      r == [method |-> m, path |-> path]
  IN IF r \in Routes THEN OpOf(r) ELSE Api404

\* AUTO_INCREMENT of each table once the seed is imported
SeedAutoInc == [patients |-> 6, doctors |-> 5, bills |-> 2, items |-> 3]

\* the ids AUTO_INCREMENT has handed out since the seed
IdsHandedOut ==
  (autoInc.patients - SeedAutoInc.patients) + (autoInc.doctors - SeedAutoInc.doctors)
    + (autoInc.bills - SeedAutoInc.bills) + (autoInc.items - SeedAutoInc.items)

Init ==
  /\ patients = SeedPatients
  /\ doctors = SeedDoctors
  /\ bills = SeedBills
  /\ items = SeedItems
  /\ autoInc = SeedAutoInc
  /\ now = StartNow
  /\ ticks = 0
  /\ pc = [p \in Requests |-> "idle"]
  /\ req = [p \in Requests |-> NoReq]
  /\ resp = [p \in Requests |-> NoResp]
  /\ ui = PageOpened

\* the handler of p ends with the response r
Reply(p, r) ==
  /\ pc' = [pc EXCEPT ![p] = "done"]
  /\ resp' = [resp EXCEPT ![p] = r]

\* a row added to a table under the next AUTO_INCREMENT id
AddRow(table, id, row) == [i \in DOMAIN table \cup {id} |-> IF i = id THEN row ELSE table[i]]

\* body.x trimmed when it is a non-empty string, SQL NULL otherwise
TrimmedOrNull(v) == IF isNonEmptyString(v) THEN Trim(v.s) ELSE NullStr

DaysIn(y, m) ==
  IF m = 2 THEN (IF y % 4 = 0 /\ (y % 100 # 0 \/ y % 400 = 0) THEN 29 ELSE 28)
  ELSE IF m \in {4, 6, 9, 11} THEN 30 ELSE 31

\* a string parameter assigned to a DATE column is accepted; for strings that
\* are either of the form YYYY-MM-DD or no date at all
IsDateString(s) ==
  /\ Len(s) = 10
  /\ s[5] = "-" /\ s[8] = "-"
  /\ \A i \in {1, 2, 3, 4, 6, 7, 9, 10} : IsDigit(s[i])
  /\ LET y == DigitsToNat(SubSeq(s, 1, 4))
         m == DigitsToNat(SubSeq(s, 6, 7))
         d == DigitsToNat(SubSeq(s, 9, 10))
     IN y >= 1 /\ m \in 1..12 /\ d >= 1 /\ d <= DaysIn(y, m)

\* a nullable DATE parameter
DateOrNullOk(s) == s = NullStr \/ IsDateString(s)

\* !x for a number x
Not(x) == x.k = "nan" \/ IsZero(x)

\* COLLATE=utf8mb4_unicode_ci: two strings that differ only in the case of
\* their letters are the same key of a unique index
CollationKey(s) == ToLowerCase(s)

\* a bills table without its unique key on bill_no
BillNoNeverTaken(billNo) == FALSE

\* uk_bills_bill_no: the INSERT of a bill finds a row with its bill_no
BillNoTaken(billNo) ==
  \E i \in DOMAIN bills : CollationKey(bills[i].bill_no) = CollationKey(billNo)

\* a bills table without its foreign key
PatientExistsUnchecked(pid) == TRUE

\* fk_bills_patient: the INSERT of a bill finds the row of its patient
PatientExists(pid) == pid \in DOMAIN patients

\* a billing_items table without its foreign key
BillExistsUnchecked(bid) == TRUE

\* fk_billing_items_bill: the INSERT of an item finds the row of its bill
BillExists(bid) == bid \in DOMAIN bills

\* the request p is handling, as the handler received it
Received(p, op, body, stmts) ==
  req' = [req EXCEPT ![p] = [NoReq EXCEPT !.op = op, !.method = MethodOf(op),
                                          !.path = PathOf(op), !.body = body,
                                          !.stmts = stmts]]

\* await query(sql, params) returned
Executed(sql) == [sql |-> sql, ok |-> TRUE]

\* await query(sql, params) threw
Failed(sql) == [sql |-> sql, ok |-> FALSE]

\* the handler of op, having passed stmts to query(), ends with the response r
Answer(p, op, body, stmts, r) == Received(p, op, body, stmts) /\ Reply(p, r)

\* a request is taken by the first handler activation that is free
Free(p) == pc[p] = "idle" /\ \A q \in 1..(p - 1) : pc[q] # "idle"

(***************************************************************************)
(* POST /api/patients                                                      *)
(***************************************************************************)
PatientGenders == {Female, Male, <<"o","t","h","e","r">>}

PatientStatuses ==
  {Stable, <<"o","b","s","e","r","v","a","t","i","o","n">>, <<"t","e","s","t","i","n","g">>,
   <<"c","r","i","t","i","c","a","l">>, <<"d","i","s","c","h","a","r","g","e","d">>}

\* the name taken without the blank check
FullNameOfUnchecked(body) == IF body.full_name.t = "str" THEN body.full_name.s ELSE <<>>

\* const fullName (of both POST /api/patients and POST /api/doctors)
FullNameOf(body) == IF isNonEmptyString(body.full_name) THEN Trim(body.full_name.s) ELSE <<>>

\* const patientCode, for the draw n of Math.random()
PatientCodeOf(body, n) ==
  IF isNonEmptyString(body.patient_code) THEN Trim(body.patient_code.s)
  ELSE generatePatientCode(n)

PostPatient(p, body) ==
  /\ Free(p)
  /\ UNCHANGED <<doctors, bills, items, now, ticks>>
  /\ LET fullName == FullNameOf(body) IN
     IF fullName = <<>>
       THEN /\ Answer(p, "POST /api/patients", body, <<>>, BadRequest("full_name is required"))
            /\ UNCHANGED <<patients, autoInc>>
       ELSE \E n \in RandomDraws :
         LET patientCode == PatientCodeOf(body, n)
             gender == pickEnum(body.gender, PatientGenders, NullStr)
             status == pickEnum(body.status, PatientStatuses, Stable)
             phone == TrimmedOrNull(body.phone)
             dob == TrimmedOrNull(body.dob)
             id == autoInc.patients
         IN IF ~DateOrNullOk(dob) \/ Len(patientCode) > 40 \/ Len(fullName) > 160
              THEN /\ Answer(p, "POST /api/patients", body, <<Failed("INSERT")>>, DbError)
                   /\ UNCHANGED <<patients, autoInc>>
              ELSE /\ IdsHandedOut < MaxInserts
                   /\ autoInc' = [autoInc EXCEPT !.patients = id + 1]
                   /\ IF \E i \in DOMAIN patients :
                           CollationKey(patients[i].patient_code) = CollationKey(patientCode)
                        THEN /\ Answer(p, "POST /api/patients", body, <<Failed("INSERT")>>, DbError)
                             /\ UNCHANGED patients
                        ELSE /\ patients' = AddRow(patients, id,
                                  [patient_code |-> patientCode, full_name |-> fullName,
                                   dob |-> dob, gender |-> gender, phone |-> phone,
                                   status |-> status])
                             /\ Answer(p, "POST /api/patients", body, <<Executed("INSERT")>>,
                                       Created(id, <<>>, patientCode))

(***************************************************************************)
(* POST /api/doctors                                                       *)
(***************************************************************************)
DoctorStatuses == {Available, OnDuty, <<"o","f","f","_","d","u","t","y">>, OnRounds}

\* const departmentId
DepartmentIdOf(body) == ToNumber(OrElse(body.department_id, Num(JsInt(0))))

PostDoctor(p, body) ==
  /\ Free(p)
  /\ UNCHANGED <<patients, bills, items, now, ticks>>
  /\ LET fullName == FullNameOf(body)
         departmentId == DepartmentIdOf(body)
     IN
     IF fullName = <<>>
       THEN /\ Answer(p, "POST /api/doctors", body, <<>>, BadRequest("full_name is required"))
            /\ UNCHANGED <<doctors, autoInc>>
     ELSE IF Not(departmentId)
       THEN /\ Answer(p, "POST /api/doctors", body, <<>>, BadRequest("department_id is required"))
            /\ UNCHANGED <<doctors, autoInc>>
     ELSE
       LET specialty == TrimmedOrNull(body.specialty)
           email == TrimmedOrNull(body.email)
           phone == TrimmedOrNull(body.phone)
           status == pickEnum(body.status, DoctorStatuses, Available)
           deps == ToIntColumn(departmentId)
           id == autoInc.doctors
       IN IF deps = {} \/ Len(fullName) > 160
            THEN /\ Answer(p, "POST /api/doctors", body, <<Failed("INSERT")>>, DbError)
                 /\ UNCHANGED <<doctors, autoInc>>
            ELSE \E dep \in deps :
                 /\ IdsHandedOut < MaxInserts
                 /\ autoInc' = [autoInc EXCEPT !.doctors = id + 1]
                 /\ IF dep \notin Departments
                      THEN /\ Answer(p, "POST /api/doctors", body, <<Failed("INSERT")>>, DbError)
                           /\ UNCHANGED doctors
                      ELSE /\ doctors' = AddRow(doctors, id,
                                [department_id |-> dep, full_name |-> fullName,
                                 specialty |-> specialty, email |-> email,
                                 phone |-> phone, status |-> status])
                           /\ Answer(p, "POST /api/doctors", body, <<Executed("INSERT")>>,
                                       Created(id, <<>>, <<>>))

(***************************************************************************)
(* POST /api/billing                                                       *)
(***************************************************************************)
\* const patientId
PatientIdOf(body) == ToNumber(OrElse(body.patient_id, Num(JsInt(0))))

\* const currency
CurrencyOf(body) ==
  IF isNonEmptyString(body.currency)
    THEN ToUpperCase(SliceTo(Trim(body.currency.s), 3))
    ELSE <<"D","Z","D">>

\* const status
BillStatusOf(body) == pickEnum(body.status, BillStatuses, Unpaid)

\* const billNo, at the time t
BillNoOf(body, t) ==
  IF isNonEmptyString(body.bill_no) THEN Trim(body.bill_no.s) ELSE generateBillNo(t)

\* const billDate
BillDateOf(body) == TrimmedOrNull(body.bill_date)

\* a total taken from the request body
NewBillTotalFromBody(body) ==
  LET x == ToNumber(OrElse(body.total_amount, Num(JsInt(0)))) IN
    IF x.k = "fin" /\ ~x.neg /\ ToDecimalColumn(x) # {}
      THEN CHOOSE d \in ToDecimalColumn(x) : TRUE
      ELSE DecZero

\* the total_amount the INSERT of POST /api/billing writes
NewBillTotal(body) == DecZero

PostBill(p, body) ==
  /\ Free(p)
  /\ UNCHANGED <<patients, doctors, items, now, ticks>>
  /\ LET patientId == PatientIdOf(body) IN
     IF Not(patientId)
       THEN /\ Answer(p, "POST /api/billing", body, <<>>, BadRequest("patient_id is required"))
            /\ UNCHANGED <<bills, autoInc>>
       ELSE
         LET currency == CurrencyOf(body)
             status == BillStatusOf(body)
             billNo == BillNoOf(body, now)
             billDate == BillDateOf(body)
             pids == ToIntColumn(patientId)
             id == autoInc.bills
         IN IF pids = {} \/ ~DateOrNullOk(billDate) \/ Len(billNo) > 60
              THEN /\ Answer(p, "POST /api/billing", body, <<Failed("INSERT")>>, DbError)
                   /\ UNCHANGED <<bills, autoInc>>
              ELSE \E pid \in pids :
                   /\ IdsHandedOut < MaxInserts
                   /\ autoInc' = [autoInc EXCEPT !.bills = id + 1]
                   /\ IF \/ ~PatientExists(pid)
                         \/ BillNoTaken(billNo)
                        THEN /\ Answer(p, "POST /api/billing", body, <<Failed("INSERT")>>, DbError)
                             /\ UNCHANGED bills
                        ELSE /\ bills' = AddRow(bills, id,
                                  [patient_id |-> pid, bill_no |-> billNo,
                                   bill_date |-> IF billDate = NullStr THEN CurDate(now)
                                                 ELSE billDate,
                                   currency |-> currency,
                                   total_amount |-> NewBillTotal(body),
                                   status |-> status])
                             /\ Answer(p, "POST /api/billing", body, <<Executed("INSERT")>>,
                                       Created(id, billNo, <<>>))

(***************************************************************************)
(* POST /api/billing/items                                                 *)
(***************************************************************************)
\* const billId
BillIdOf(body) == ToNumber(OrElse(body.bill_id, Num(JsInt(0))))

\* const description
DescriptionOf(body) ==
  IF isNonEmptyString(body.description) THEN Trim(body.description.s) ELSE <<>>

\* const qty
QtyOf(body) ==
  MathMax(JsInt(QtyMin), MathMin(JsInt(QtyMax), ToNumber(OrElse(body.qty, Num(JsInt(1))))))

\* const unitPrice
UnitPriceOf(body) == ToNumber(OrElse(body.unit_price, Num(JsInt(0))))

\* the check with Number.isFinite left out
UnitPriceRejectedNegativeOnly(unitPrice) == Less(unitPrice, JsInt(0))

\* !Number.isFinite(unitPrice) || unitPrice < 0
UnitPriceRejected(unitPrice) == ~IsFinite(unitPrice) \/ Less(unitPrice, JsInt(0))

\* the rows of bills that WHERE b.id = ? selects for the number billId
BillsWithId(billId) == {b \in DOMAIN bills : JsInt(b) = billId}

\* a recompute that takes the line of the newest item of b for the total
NewestLineTotal(its, b) ==
  LET mine == {i \in DOMAIN its : its[i].bill_id = b}
      newest == CHOOSE i \in mine : \A j \in mine : j <= i
  IN IF mine = {} THEN DecZero ELSE DecTimes(its[newest].qty, its[newest].unit_price)

\* an incremental recompute: the stored total plus the newest item of b
IncrementedTotal(its, b) ==
  LET mine == {i \in DOMAIN its : its[i].bill_id = b}
      newest == CHOOSE i \in mine : \A j \in mine : j <= i
  IN IF mine = {} THEN DecZero
     ELSE DecAdd(bills[b].total_amount, DecTimes(its[newest].qty, its[newest].unit_price))

\* the value the recompute UPDATE computes for bill b
RecomputedTotal(its, b) == ItemsTotal(its, b)

\* validation and the INSERT
PostItemInsert(p, body) ==
  /\ Free(p)
  /\ UNCHANGED <<patients, doctors, bills, now, ticks>>
  /\ LET billId == BillIdOf(body)
         description == DescriptionOf(body)
         qty == QtyOf(body)
         unitPrice == UnitPriceOf(body)
         rejected(msg) ==
           /\ Answer(p, "POST /api/billing/items", body, <<>>, BadRequest(msg))
           /\ UNCHANGED <<items, autoInc>>
     IN
     IF Not(billId) THEN rejected("bill_id is required")
     ELSE IF description = <<>> THEN rejected("description is required")
     ELSE IF UnitPriceRejected(unitPrice) THEN rejected("unit_price must be >= 0")
     ELSE
       LET bids == ToIntColumn(billId)
           qtys == ToIntColumn(qty)
           prices == ToDecimalColumn(unitPrice)
           id == autoInc.items
           issued(insertId, stmt) ==
             req' = [req EXCEPT ![p] =
                      [NoReq EXCEPT !.op = "POST /api/billing/items",
                                    !.method = MethodOf("POST /api/billing/items"),
                                    !.path = PathOf("POST /api/billing/items"),
                                    !.body = body,
                                    !.billId = billId, !.qty = qty,
                                    !.unitPrice = unitPrice, !.insertId = insertId,
                                    !.stmts = <<stmt>>]]
       IN IF bids = {} \/ qtys = {} \/ prices = {} \/ Len(description) > 200
            THEN /\ issued(0, Failed("INSERT"))
                 /\ Reply(p, DbError)
                 /\ UNCHANGED <<items, autoInc>>
            ELSE \E bid \in bids, q \in qtys, price \in prices :
                 /\ IdsHandedOut < MaxInserts
                 /\ autoInc' = [autoInc EXCEPT !.items = id + 1]
                 /\ IF ~BillExists(bid)
                      THEN /\ issued(0, Failed("INSERT"))
                           /\ Reply(p, DbError)
                           /\ UNCHANGED items
                      ELSE /\ items' = AddRow(items, id,
                                [bill_id |-> bid, description |-> description,
                                 qty |-> q, unit_price |-> price])
                           /\ issued(id, Executed("INSERT"))
                           /\ pc' = [pc EXCEPT ![p] = "recompute"]
                           /\ UNCHANGED resp

\* an UPDATE without its WHERE b.id = ?: every bill gets the sum of the named one
AllBillsRecomputed(hit) ==
  [b \in DOMAIN bills |->
     IF hit = {} THEN bills[b]
     ELSE [bills[b] EXCEPT !.total_amount = RecomputedTotal(items, CHOOSE h \in hit : TRUE)]]

\* the bills table after UPDATE bills b SET b.total_amount = (...) WHERE b.id = ?
BillsRecomputed(hit) ==
  [b \in DOMAIN bills |->
     IF b \in hit THEN [bills[b] EXCEPT !.total_amount = RecomputedTotal(items, b)]
     ELSE bills[b]]

\* a recompute UPDATE that is issued again when it fails
PostItemRecomputeRetrying(p) ==
  /\ pc[p] = "recompute"
  /\ UNCHANGED <<patients, doctors, items, autoInc, now, ticks, resp>>
  /\ LET hit == BillsWithId(req[p].billId) IN
     IF \E b \in hit : RecomputedTotal(items, b).over
       THEN /\ req' = [req EXCEPT ![p].stmts = Append(@, Failed("UPDATE"))]
            /\ UNCHANGED <<bills, pc>>
       ELSE /\ req' = [req EXCEPT ![p].stmts = Append(@, Executed("UPDATE"))]
            /\ bills' = BillsRecomputed(hit)
            /\ pc' = [pc EXCEPT ![p] = "respond"]

\* the recompute UPDATE
PostItemRecompute(p) ==
  /\ pc[p] = "recompute"
  /\ UNCHANGED <<patients, doctors, items, autoInc, now, ticks>>
  /\ LET hit == BillsWithId(req[p].billId)
         issued(stmt) == req' = [req EXCEPT ![p].stmts = Append(@, stmt)]
     IN
     IF \E b \in hit : RecomputedTotal(items, b).over
       THEN /\ issued(Failed("UPDATE"))
            /\ Reply(p, DbError)
            /\ UNCHANGED bills
       ELSE /\ issued(Executed("UPDATE"))
            /\ bills' = BillsRecomputed(hit)
            /\ pc' = [pc EXCEPT ![p] = "respond"]
            /\ UNCHANGED resp

\* the response sent without awaiting the recompute UPDATE
PostItemRespondEarly(p) ==
  /\ pc[p] \in {"recompute", "respond"}
  /\ Reply(p, Created(req[p].insertId, <<>>, <<>>))
  /\ UNCHANGED <<store, now, ticks, req>>

\* res.status(201).json({ id: result.insertId })
PostItemRespond(p) ==
  /\ pc[p] = "respond"
  /\ Reply(p, Created(req[p].insertId, <<>>, <<>>))
  /\ UNCHANGED <<store, now, ticks, req>>

(***************************************************************************)
(* The GET routes.  A query-string parameter is a string, or Undef when it *)
(* is absent.  The statement of a handler is executed, or query() rejects  *)
(* (the server cannot be reached, the pool is closed, the SQL is refused). *)
(***************************************************************************)
Methods == {"GET", "HEAD", "POST", "DELETE"}

\* the request line and query string received by the handler of op, with the
\* locals the handler computes from them
ReceivedGet(p, op, method, query, billId, lq, stmts) ==
  req' = [req EXCEPT ![p] =
           [NoReq EXCEPT !.op = op, !.method = method, !.path = PathOf(op),
                         !.query = query, !.billId = billId, !.lq = lq,
                         !.stmts = stmts]]

\* the outcome of await query(sql)
Outcome(sql, executed) == IF executed THEN Executed(sql) ELSE Failed(sql)

\* a handler whose try block runs one SELECT (or several at once, taken as
\* one) and sends rows, and whose catch block sends apiError(res, 500,
\* dbErrorPayload())
Select(p, op, method, query, rows) ==
  /\ Free(p)
  /\ Route(method, PathOf(op)) = op
  /\ \E executed \in BOOLEAN :
       /\ ReceivedGet(p, op, method, query, NaN, NaN, <<Outcome("SELECT", executed)>>)
       /\ Reply(p, IF executed THEN Ok(rows) ELSE DbError)
  /\ UNCHANGED <<store, now, ticks>>

\* the k first of the ids in the strict total order before, its pairs <<earlier, later>>
TopRows(ids, k, before) ==
  LET n == IF k < Cardinality(ids) THEN k ELSE Cardinality(ids)
      rank == [i \in ids |-> Cardinality({j \in ids : <<j, i>> \in before})]
  IN [r \in 1..n |-> CHOOSE i \in ids : rank[i] = r - 1]

\* GET /api/health: SELECT 1 AS ok
GetHealth(p, method) ==
  Select(p, "GET /api/health", method, EmptyQuery, <<>>)

\* GET /api/stats: totalPatients and doctorsAvailable (appointments and beds
\* are tables the model does not hold)
GetStats(p, method) ==
  Select(p, "GET /api/stats", method, EmptyQuery,
            <<Cardinality(DOMAIN patients),
              Cardinality({d \in DOMAIN doctors : doctors[d].status \in {Available, OnDuty}})>>)

\* the clamp left out: const lq = Number(req.query.limit || fallback)
LimitOfUnclamped(query, fallback) == ToNumber(OrElse(query.limit, Num(JsInt(fallback))))

\* const lq = Math.min(Number(req.query.limit || fallback), 100)
LimitOf(query, fallback) ==
  MathMin(ToNumber(OrElse(query.limit, Num(JsInt(fallback)))), JsInt(LimitMax))

\* LIMIT ${lq} is a LIMIT clause the server accepts
LimitAccepted(lq) == lq.k = "fin" /\ lq.m = 0 /\ ~lq.neg

\* a handler whose SELECT ends with LIMIT ${lq}
SelectLimited(p, op, method, query, lq, ids, before) ==
  /\ Free(p)
  /\ Route(method, PathOf(op)) = op
  /\ \E executed \in BOOLEAN :
       /\ ReceivedGet(p, op, method, query, NaN, lq,
                      <<Outcome("SELECT", executed /\ LimitAccepted(lq))>>)
       /\ Reply(p, IF executed /\ LimitAccepted(lq) THEN Ok(TopRows(ids, lq.w, before))
                   ELSE DbError)
  /\ UNCHANGED <<store, now, ticks>>

\* ORDER BY p.created_at DESC: the later row first (ids grow with created_at;
\* rows of one second are taken in that order too)
LaterPatient(i, j) == i > j

\* GET /api/patients, its rows named by patient id
GetPatients(p, method, query) ==
  SelectLimited(p, "GET /api/patients", method, query,
                LimitOf(query, PatientsLimit), DOMAIN patients,
                {o \in (DOMAIN patients) \X (DOMAIN patients) : LaterPatient(o[1], o[2])})

\* FIELD(doc.status, 'on_duty','available','on_rounds','off_duty')
StatusField(st) ==
  IF st = OnDuty THEN 1 ELSE IF st = Available THEN 2 ELSE IF st = OnRounds THEN 3 ELSE 4

\* ORDER BY FIELD(doc.status, ...), doc.full_name (rows of one status are
\* taken by id: the model does not compare names)
DoctorBefore(i, j) ==
  \/ StatusField(doctors[i].status) < StatusField(doctors[j].status)
  \/ StatusField(doctors[i].status) = StatusField(doctors[j].status) /\ i < j

\* GET /api/doctors, its rows named by doctor id
GetDoctors(p, method, query) ==
  SelectLimited(p, "GET /api/doctors", method, query,
                LimitOf(query, DoctorsLimit), DOMAIN doctors,
                {o \in (DOMAIN doctors) \X (DOMAIN doctors) : DoctorBefore(o[1], o[2])})

\* GET /api/appointments (appointments is a table the model does not hold)
GetAppointments(p, method, query) ==
  Select(p, "GET /api/appointments", method, query, <<>>)

\* GET /api/departments, its rows named by department id
GetDepartments(p, method) ==
  Select(p, "GET /api/departments", method, EmptyQuery, [i \in Departments |-> i])

\* GET /api/pharmacy (pharmacy_items is a table the model does not hold)
GetPharmacy(p, method) ==
  Select(p, "GET /api/pharmacy", method, EmptyQuery, <<>>)

\* GET /api/laboratory (lab_tests is a table the model does not hold)
GetLaboratory(p, method) ==
  Select(p, "GET /api/laboratory", method, EmptyQuery, <<>>)

\* a DATE as the number YYYYMMDD
DateNumber(d) == DigitsToNat(SubSeq(d, 1, 4) \o SubSeq(d, 6, 7) \o SubSeq(d, 9, 10))

\* ORDER BY b.bill_date DESC, b.id DESC
BillBefore(i, j) ==
  \/ DateNumber(bills[i].bill_date) > DateNumber(bills[j].bill_date)
  \/ DateNumber(bills[i].bill_date) = DateNumber(bills[j].bill_date) /\ i > j

\* GET /api/billing, its rows named by bill id
GetBilling(p, method) ==
  Select(p, "GET /api/billing", method, EmptyQuery,
            TopRows({b \in DOMAIN bills : bills[b].patient_id \in DOMAIN patients},
                    BillingLimit,
                    {o \in (DOMAIN bills) \X (DOMAIN bills) : BillBefore(o[1], o[2])}))

\* const billId = Number(req.query.billId || 0)
BillIdOfQuery(query) == ToNumber(OrElse(query.billId, Num(JsInt(0))))

\* the check that lets NaN through: billId === 0
BillIdMissingZeroOnly(billId) == IsZero(billId)

\* !billId
BillIdMissing(billId) == Not(billId)

\* SELECT id, description, qty, unit_price, ROUND(qty * unit_price, 2) AS
\* line_total FROM billing_items WHERE bill_id = ? ORDER BY id ASC
ItemRows(billId) ==
  LET ids == {i \in DOMAIN items : JsInt(items[i].bill_id) = billId}
      asc == TopRows(ids, Cardinality(ids), {o \in ids \X ids : o[1] < o[2]})
  IN [n \in 1..Len(asc) |->
        [id |-> asc[n], description |-> items[asc[n]].description,
         qty |-> items[asc[n]].qty, unit_price |-> items[asc[n]].unit_price,
         line_total |-> DecTimes(items[asc[n]].qty, items[asc[n]].unit_price)]]

\* a GET /api/billing/items that brings the total of the bill up to date
GetItemsRecomputing(p, method, query) ==
  LET billId == BillIdOfQuery(query) IN
    /\ Free(p)
    /\ Route(method, "/api/billing/items") = "GET /api/billing/items"
    /\ IF BillIdMissing(billId)
         THEN /\ ReceivedGet(p, "GET /api/billing/items", method, query, billId, NaN, <<>>)
              /\ Reply(p, BadRequest("billId is required")) /\ UNCHANGED bills
         ELSE /\ \E executed \in BOOLEAN :
                   /\ ReceivedGet(p, "GET /api/billing/items", method, query, billId, NaN,
                                  <<Outcome("SELECT", executed)>>)
                   /\ Reply(p, IF executed THEN Ok(ItemRows(billId)) ELSE DbError)
              /\ bills' = [b \in DOMAIN bills |->
                             IF b \in BillsWithId(billId) /\ ~RecomputedTotal(items, b).over
                               THEN [bills[b] EXCEPT !.total_amount = RecomputedTotal(items, b)]
                               ELSE bills[b]]
    /\ UNCHANGED <<patients, doctors, items, autoInc, now, ticks>>

\* GET /api/billing/items
GetItems(p, method, query) ==
  LET billId == BillIdOfQuery(query) IN
    /\ Free(p)
    /\ Route(method, "/api/billing/items") = "GET /api/billing/items"
    /\ IF BillIdMissing(billId)
         THEN /\ ReceivedGet(p, "GET /api/billing/items", method, query, billId, NaN, <<>>)
              /\ Reply(p, BadRequest("billId is required"))
         ELSE \E executed \in BOOLEAN :
                /\ ReceivedGet(p, "GET /api/billing/items", method, query, billId, NaN,
                               <<Outcome("SELECT", executed)>>)
                /\ Reply(p, IF executed THEN Ok(ItemRows(billId)) ELSE DbError)
    /\ UNCHANGED <<store, now, ticks>>

(***************************************************************************)
(* Requests no route takes, and requests whose body express.json() refuses.*)
(***************************************************************************)
\* app.use("/api", (req, res) => apiError(res, 404, { error: "Not found" }))
NotFound(p, method, path) ==
  /\ Free(p)
  /\ Route(method, path) = Api404
  /\ req' = [req EXCEPT ![p] = [NoReq EXCEPT !.op = Api404, !.method = method, !.path = path]]
  /\ Reply(p, apiError(404, "Not found", ""))
  /\ UNCHANGED <<store, now, ticks>>

\* the type of the error express.json({ limit: "64kb" }) passes to next()
TooLarge == "entity.too.large"

ParseFailed == "entity.parse.failed"

CharsetUnsupported == "charset.unsupported"

BodyErrors == {TooLarge, ParseFailed, CharsetUnsupported}

ExpressJson == "express.json"

\* the global error handler: express.json() runs before every route
PayloadError(p, method, path, type) ==
  /\ Free(p)
  /\ req' = [req EXCEPT ![p] = [NoReq EXCEPT !.op = ExpressJson, !.method = method,
                                             !.path = path, !.bodyError = type]]
  /\ Reply(p, IF type = TooLarge THEN apiError(413, "Payload too large", "")
              ELSE IF type = ParseFailed THEN apiError(400, "Invalid JSON", "")
              ELSE apiError(500, "Server error", ""))
  /\ UNCHANGED <<store, now, ticks>>

(***************************************************************************)
(* The store outside the API: a patient row is deleted; ON DELETE CASCADE  *)
(* of fk_bills_patient and fk_billing_items_bill removes the patient's     *)
(* bills and the items of those bills in the same statement.               *)
(***************************************************************************)
Without(table, gone) == [i \in DOMAIN table \ gone |-> table[i]]

BillsOfPatient(pid) == {b \in DOMAIN bills : bills[b].patient_id = pid}

\* a billing_items table whose foreign key does not cascade
ItemsOfBillsKept(gone) == {}

ItemsOfBills(gone) == {i \in DOMAIN items : items[i].bill_id \in gone}

DeletePatient(pid) ==
  /\ pid \in DOMAIN patients
  /\ patients' = Without(patients, {pid})
  /\ bills' = Without(bills, BillsOfPatient(pid))
  /\ items' = Without(items, ItemsOfBills(BillsOfPatient(pid)))
  /\ UNCHANGED <<doctors, autoInc, now, ticks, pc, req, resp>>

(***************************************************************************)
(* The environment: the client takes the response, the clock advances.     *)
(***************************************************************************)
Finish(p) ==
  /\ pc[p] = "done"
  /\ pc' = [pc EXCEPT ![p] = "idle"]
  /\ req' = [req EXCEPT ![p] = NoReq]
  /\ resp' = [resp EXCEPT ![p] = NoResp]
  /\ UNCHANGED <<store, now, ticks>>

Tick(d) ==
  /\ ticks < MaxTicks
  /\ ticks' = ticks + 1
  /\ now' = Advance(now, d)
  /\ UNCHANGED <<store, pc, req, resp>>

(***************************************************************************)
(* The billing page of the browser UI.  A handler of the page runs until   *)
(* its next await; a fetch is handled by the server when it is issued and  *)
(* its response waits at the handler activation until the page takes it,   *)
(* so responses can be taken in any order.                                 *)
(***************************************************************************)
\* no handler of the page is between being resumed and its next fetch
PageIdle == ui.todo = NoAwait

\* the page waits for no response and no handler of it is about to fetch
AllFetchesCompleted(page) ==
  page.todo = NoAwait /\ \A p \in Requests : page.await[p] = NoAwait

\* `/api/billing/items?billId=${encodeURIComponent(billId)}`
ItemsUrl(billId) == [EmptyQuery EXCEPT !.billId = Str(NatToStr(billId))]

\* the page takes the response of p: fetchJson / postJson resolves or throws
Taken(p, k) == ui.await[p].k = k /\ Finish(p)

\* renderBillingItems(billNo, items), the items fetched for billId
renderBillingItems(page, billNo, billId, rows) ==
  [page EXCEPT !.subtitle = billNo, !.shown = rows, !.shownFor = billId]

\* the catch block of loadRouteData("billing")
LoadFailed(page) ==
  [page EXCEPT !.table = <<>>, !.subtitle = <<>>, !.shown = <<>>, !.shownFor = 0]

\* loadRouteData("billing") up to its Promise.all (the refresh button, the
\* navigation to the page, or the Add Bill handler after its POST); the list
\* of patients fetched beside the bills fills a select and is taken with it
UiLoad(p) ==
  /\ ui.todo.k \in {"none", "load"}
  /\ GetBilling(p, "GET")
  /\ ui' = [ui EXCEPT !.await[p] = [NoAwait EXCEPT !.k = "list",
                                                   !.created = ui.todo.created],
                      !.todo = NoAwait]

\* loadRouteData("billing") from renderBilling(rows) to the fetch of the
\* items of the first row
UiListLoaded(p) ==
  /\ PageIdle
  /\ Taken(p, "list")
  /\ LET rows == resp[p].rows
         rest == [ui EXCEPT !.await[p] = NoAwait]
     IN IF resp[p].status # 200 THEN ui' = LoadFailed(rest)
        ELSE IF Len(rows) = 0
          THEN ui' = renderBillingItems(
                       [rest EXCEPT !.table = rows, !.selectedBillId = 0,
                                    !.selectedBillNo = <<>>], <<>>, 0, <<>>)
          ELSE ui' = [rest EXCEPT !.table = rows,
                                  !.selectedBillId = rows[1],
                                  !.selectedBillNo = bills[rows[1]].bill_no,
                                  !.todo = [k |-> "items", billId |-> rows[1],
                                            billNo |-> bills[rows[1]].bill_no,
                                            created |-> ui.await[p].created]]

\* the fetch of the items of the first row
UiLoadItems(p) ==
  /\ ui.todo.k = "items"
  /\ GetItems(p, "GET", ItemsUrl(ui.todo.billId))
  /\ ui' = [ui EXCEPT !.await[p] = [ui.todo EXCEPT !.k = "first"], !.todo = NoAwait]

\* renderBillingItems(first.bill_no, items), or the catch block
UiItemsLoaded(p) ==
  /\ PageIdle
  /\ Taken(p, "first")
  /\ LET rest == [ui EXCEPT !.await[p] = NoAwait] IN
       ui' = IF resp[p].status = 200
               THEN renderBillingItems(rest, ui.await[p].billNo, ui.await[p].billId,
                                       resp[p].rows)
               ELSE LoadFailed(rest)

\* the click handler of #billingTable on the row of bill b, up to its fetch
UiClick(p, b) ==
  /\ PageIdle
  /\ \E n \in 1..Len(ui.table) : ui.table[n] = b
  /\ GetItems(p, "GET", ItemsUrl(b))
  /\ ui' = [ui EXCEPT !.selectedBillId = b,
                      !.selectedBillNo = bills[b].bill_no,
                      !.await[p] = [k |-> "click", billId |-> b,
                                    billNo |-> bills[b].bill_no, created |-> 0]]

\* the click handler resumed: renderBillingItems(billNo, items), or nothing
\* when the fetch failed
UiClickLoaded(p) ==
  /\ PageIdle
  /\ Taken(p, "click")
  /\ LET rest == [ui EXCEPT !.await[p] = NoAwait] IN
       ui' = IF resp[p].status = 200
               THEN renderBillingItems(rest, ui.await[p].billNo, ui.await[p].billId,
                                       resp[p].rows)
               ELSE rest

\* the payload of the Add Bill form for the patient chosen in the select
AddBillPayload(pid) ==
  [EmptyBody EXCEPT !.patient_id = Num(JsInt(pid)), !.currency = Str(<<"D","Z","D">>),
                    !.status = Str(Unpaid)]

\* the submit handler of addBillForm, up to its POST
UiAddBill(p, pid) ==
  /\ PageIdle
  /\ PostBill(p, AddBillPayload(pid))
  /\ ui' = [ui EXCEPT !.await[p] = [NoAwait EXCEPT !.k = "created"]]

\* the submit handler of addBillForm resumed: the created bill is selected
\* and loadRouteData("billing") is called, or the error is shown
UiBillCreated(p) ==
  /\ PageIdle
  /\ Taken(p, "created")
  /\ LET rest == [ui EXCEPT !.await[p] = NoAwait] IN
       ui' = IF resp[p].status = 201
               THEN [rest EXCEPT !.selectedBillId = resp[p].id,
                                 !.selectedBillNo = resp[p].bill_no,
                                 !.todo = [NoAwait EXCEPT !.k = "load",
                                                          !.created = resp[p].id]]
               ELSE rest

\* the payload of the Add Item form
AddItemPayload(billId) ==
  [EmptyBody EXCEPT !.bill_id = Num(JsInt(billId)), !.description = Str(<<"x">>),
                    !.qty = Num(JsInt(1)), !.unit_price = Num(JsInt(10))]

\* the submit handler of addBillItemForm, up to its POST; with no bill
\* selected it shows a hint and returns
UiAddItem(p) ==
  /\ PageIdle
  /\ ui.selectedBillId # 0
  /\ PostItemInsert(p, AddItemPayload(ui.selectedBillId))
  /\ ui' = [ui EXCEPT !.await[p] = [NoAwait EXCEPT !.k = "posted",
                                                   !.billId = ui.selectedBillId]]

\* the submit handler of addBillItemForm resumed after its POST: the fetch of
\* the bills follows, or the error is shown
UiItemPosted(p) ==
  /\ PageIdle
  /\ Taken(p, "posted")
  /\ ui' = [ui EXCEPT !.await[p] = NoAwait,
                      !.todo = IF resp[p].status = 201
                                 THEN [NoAwait EXCEPT !.k = "relist"] ELSE NoAwait]

\* const rows = await fetchJson("/api/billing")
UiRelist(p) ==
  /\ ui.todo.k = "relist"
  /\ GetBilling(p, "GET")
  /\ ui' = [ui EXCEPT !.await[p] = [NoAwait EXCEPT !.k = "relisted"], !.todo = NoAwait]

\* renderBilling(rows); the fetch of the items of selectedBillId follows
UiRelisted(p) ==
  /\ PageIdle
  /\ Taken(p, "relisted")
  /\ LET rest == [ui EXCEPT !.await[p] = NoAwait] IN
       ui' = IF resp[p].status = 200
               THEN [rest EXCEPT !.table = resp[p].rows,
                                 !.todo = [NoAwait EXCEPT !.k = "reitems",
                                                          !.billId = ui.selectedBillId]]
               ELSE rest

\* const items = await fetchJson(`/api/billing/items?billId=${selectedBillId}`)
UiReloadItems(p) ==
  /\ ui.todo.k = "reitems"
  /\ GetItems(p, "GET", ItemsUrl(ui.todo.billId))
  /\ ui' = [ui EXCEPT !.await[p] = [ui.todo EXCEPT !.k = "reloaded"], !.todo = NoAwait]

\* renderBillingItems(selectedBillNo, items), or the error is shown
UiItemsReloaded(p) ==
  /\ PageIdle
  /\ Taken(p, "reloaded")
  /\ LET rest == [ui EXCEPT !.await[p] = NoAwait] IN
       ui' = IF resp[p].status = 200
               THEN renderBillingItems(rest, ui.selectedBillNo, ui.await[p].billId,
                                       resp[p].rows)
               ELSE rest

\* a response no handler of the page waits for is taken by its client
OtherFinish(p) == ui.await[p] = NoAwait /\ Finish(p) /\ UNCHANGED ui

(***************************************************************************)
(* Request bodies.                                                         *)
(***************************************************************************)
Milli(w, m) == Num(Fin(FALSE, w, m))

PatientBodies == {[EmptyBody EXCEPT !.full_name = Str(<<"N"," ">>)]}

DoctorBodies ==
  {[EmptyBody EXCEPT !.full_name = Str(<<"D">>), !.department_id = Num(JsInt(1))]}

BillBodies ==
  {[EmptyBody EXCEPT !.patient_id = Num(JsInt(1)), !.bill_no = no] :
     no \in {Undef, Str(<<"B","7">>)}}

ItemBody(b, q, u) ==
  [EmptyBody EXCEPT !.bill_id = b, !.description = Str(<<"x">>), !.qty = q, !.unit_price = u]

ItemBodies ==
  {ItemBody(Num(JsInt(1)), Undef, Milli(0, 5)),
   ItemBody(Num(JsInt(1)), Num(JsInt(100000)), Milli(999, 990)),
   ItemBody(Num(JsInt(2)), Num(JsInt(2)), Milli(10, 0)),
   ItemBody(Milli(1, 500), Undef, Milli(10, 0))}

Next ==
  \/ \E p \in Requests, body \in PatientBodies : PostPatient(p, body) /\ UNCHANGED ui
  \/ \E p \in Requests, body \in DoctorBodies : PostDoctor(p, body) /\ UNCHANGED ui
  \/ \E p \in Requests, body \in BillBodies : PostBill(p, body) /\ UNCHANGED ui
  \/ \E p \in Requests, body \in ItemBodies : PostItemInsert(p, body) /\ UNCHANGED ui
  \/ \E p \in Requests : PostItemRecompute(p) /\ UNCHANGED ui
  \/ \E p \in Requests : PostItemRespond(p) /\ UNCHANGED ui
  \/ \E p \in Requests : Finish(p) /\ UNCHANGED ui
  \/ \E d \in TickSteps : Tick(d) /\ UNCHANGED ui

Spec == Init /\ [][Next]_vars

\* the statements the handler of op passes to query(), in the order of its code
StatementsOf(op) ==
  IF op = "POST /api/billing/items" THEN <<"INSERT", "UPDATE">>
  ELSE IF op \in {OpOf(r) : r \in {x \in Routes : x.method = "POST"}} THEN <<"INSERT">>
  ELSE IF op \in {OpOf(r) : r \in Routes} THEN <<"SELECT">>
  ELSE <<>>

(***************************************************************************)
(* The same handlers with the requests executed one at a time: a request   *)
(* is taken only when no other request is being handled or awaits pick-up. *)
(***************************************************************************)
Quiet == \A p \in Requests : pc[p] = "idle"

NextSeq ==
  \/ \E body \in PatientBodies : Quiet /\ PostPatient(1, body) /\ UNCHANGED ui
  \/ \E body \in DoctorBodies : Quiet /\ PostDoctor(1, body) /\ UNCHANGED ui
  \/ \E body \in BillBodies : Quiet /\ PostBill(1, body) /\ UNCHANGED ui
  \/ \E body \in ItemBodies : Quiet /\ PostItemInsert(1, body) /\ UNCHANGED ui
  \/ \E p \in Requests : PostItemRecompute(p) /\ UNCHANGED ui
  \/ \E p \in Requests : PostItemRespond(p) /\ UNCHANGED ui
  \/ \E p \in Requests : Finish(p) /\ UNCHANGED ui
  \/ \E d \in TickSteps : Tick(d) /\ UNCHANGED ui

SpecSeq == Init /\ [][NextSeq]_vars

(***************************************************************************)
(* One request on the seeded store, its body drawn from the whole range of *)
(* JSON values the handlers coerce.                                        *)
(***************************************************************************)
Strs(set) == {Str(s) : s \in set}

PatientInputs ==
  {[EmptyBody EXCEPT !.full_name = n, !.patient_code = c, !.gender = g, !.dob = d] :
     n \in {Undef, Null, Num(JsInt(1))} \cup Strs({<<>>, <<" ">>, <<" ","N"," ">>}),
     c \in {Undef} \cup Strs({<<"P","-","1","0","9","4","2">>}),
     g \in {Undef} \cup Strs({<<"M","A","L","E">>, <<"x">>}),
     d \in {Undef} \cup Strs({<<"1","9","9","0","-","0","2","-","3","0">>,
                              <<"1","9","9","0","-","0","2","-","2","8">>})}

DoctorInputs ==
  {[EmptyBody EXCEPT !.full_name = n, !.department_id = d, !.status = st] :
     n \in {Undef, Num(JsInt(1))} \cup Strs({<<" ">>, <<"D","r">>}),
     d \in {Undef, Null, Num(JsInt(0)), Num(JsInt(1)), Num(JsInt(7)), Milli(1, 500), Num(PosInf)}
           \cup Strs({<<>>, <<"2">>, <<"x">>}),
     st \in {Undef} \cup Strs({<<"O","n","_","D","u","t","y">>})}

BillInputs ==
  {[EmptyBody EXCEPT !.patient_id = pid, !.currency = cur, !.status = st,
                     !.bill_no = no, !.bill_date = d, !.total_amount = tot] :
     pid \in {Undef, Null, Num(JsInt(0)), Num(JsInt(1)), Num(JsInt(9)), Num(NaN)}
             \cup Strs({<<>>, <<"2">>, <<"a","b">>}),
     cur \in {Undef, Num(JsInt(5))}
             \cup Strs({<<" ">>, <<"d","z","d">>, <<" ","e","u","r","o"," ">>, <<"u","s">>}),
     st \in {Undef} \cup Strs({<<"P","a","i","d">>, <<"d","u","e">>, <<"v","o","i","d">>}),
     no \in {Undef} \cup Strs({<<" ","B","7"," ">>, SeedBillNo}),
     d \in {Undef} \cup Strs({<<"2","0","2","6","-","1","3","-","0","1">>,
                              <<"2","0","2","6","-","1","1","-","0","2">>}),
     tot \in {Undef, Milli(12, 500)}}

ItemInputs ==
  {[EmptyBody EXCEPT !.bill_id = b, !.description = de, !.qty = q, !.unit_price = u] :
     b \in {Undef, Num(JsInt(0)), Num(JsInt(1)), Num(JsInt(2)), Milli(0, 500)}
           \cup Strs({<<"1">>}),
     de \in {Undef, Num(JsInt(3))} \cup Strs({<<" ">>, <<" ","x"," ">>}),
     q \in {Undef, Num(JsInt(0)), Num(JsInt(0 - 1)), Milli(2, 500), Num(JsInt(7)),
            Num(JsInt(QtyMax)), Num(JsInt(QtyMax + 1)), Num(PosInf)}
           \cup Strs({<<"a","b">>, <<"3">>}),
     u \in {Undef, Num(JsInt(0)), Num(Fin(TRUE, 0, 1)), Milli(0, 5), Milli(999, 990),
            Milli(DecMaxWhole + 1, 0), Num(PosInf)}
           \cup Strs({<<"a","b">>, <<"1","2">>})}

NextInput ==
  \/ \E body \in PatientInputs : PostPatient(1, body) /\ UNCHANGED ui
  \/ \E body \in DoctorInputs : PostDoctor(1, body) /\ UNCHANGED ui
  \/ \E body \in BillInputs : PostBill(1, body) /\ UNCHANGED ui
  \/ \E body \in ItemInputs : PostItemInsert(1, body) /\ UNCHANGED ui
  \/ PostItemRecompute(1) /\ UNCHANGED ui
  \/ PostItemRespond(1) /\ UNCHANGED ui
  \/ \E d \in TickSteps : Tick(d) /\ UNCHANGED ui

SpecInput == Init /\ [][NextInput]_vars

(***************************************************************************)
(* The whole HTTP surface, the requests executed one at a time, while      *)
(* patient rows are deleted in the store.                                  *)
(***************************************************************************)
LimitQueries ==
  {[EmptyQuery EXCEPT !.limit = l] :
     l \in {Undef} \cup Strs({<<"3">>, <<"1","0","0","0">>, <<"a","b">>})}

ItemQueries ==
  {[EmptyQuery EXCEPT !.billId = b] :
     b \in {Undef} \cup Strs({<<"0">>, <<"1">>, <<"2">>, <<"a","b">>, <<"1",".","5">>})}

DayQueries == {[EmptyQuery EXCEPT !.day = d] : d \in {Undef} \cup Strs({<<"A","L","L">>})}

\* paths under /api: those of the routes and two others
Paths == GetPaths \cup PostPaths \cup {"/api", "/api/unknown"}

\* the request lines followed with a body express.json() refuses
PayloadLines ==
  {[method |-> "POST", path |-> "/api/billing/items"],
   [method |-> "GET", path |-> "/api/health"],
   [method |-> "POST", path |-> "/api/unknown"]}

\* the patient rows followed through a deletion: the owner of the seeded bill
\* and a patient without bills
DeletablePatients == {1, 2}

NextHttp ==
  \/ \E body \in PatientBodies \cup {EmptyBody} : Quiet /\ PostPatient(1, body) /\ UNCHANGED ui
  \/ \E body \in DoctorBodies \cup {EmptyBody} : Quiet /\ PostDoctor(1, body) /\ UNCHANGED ui
  \/ \E body \in BillBodies \cup {EmptyBody} : Quiet /\ PostBill(1, body) /\ UNCHANGED ui
  \/ \E body \in ItemBodies \cup {EmptyBody} : Quiet /\ PostItemInsert(1, body) /\ UNCHANGED ui
  \/ PostItemRecompute(1) /\ UNCHANGED ui
  \/ PostItemRespond(1) /\ UNCHANGED ui
  \/ \E method \in Methods : Quiet /\ GetHealth(1, method) /\ UNCHANGED ui
  \/ \E method \in Methods : Quiet /\ GetStats(1, method) /\ UNCHANGED ui
  \/ \E method \in Methods, query \in LimitQueries : Quiet /\ GetPatients(1, method, query) /\ UNCHANGED ui
  \/ \E method \in Methods, query \in LimitQueries : Quiet /\ GetDoctors(1, method, query) /\ UNCHANGED ui
  \/ \E method \in Methods, query \in DayQueries : Quiet /\ GetAppointments(1, method, query) /\ UNCHANGED ui
  \/ \E method \in Methods : Quiet /\ GetDepartments(1, method) /\ UNCHANGED ui
  \/ \E method \in Methods : Quiet /\ GetPharmacy(1, method) /\ UNCHANGED ui
  \/ \E method \in Methods : Quiet /\ GetLaboratory(1, method) /\ UNCHANGED ui
  \/ \E method \in Methods : Quiet /\ GetBilling(1, method) /\ UNCHANGED ui
  \/ \E method \in Methods, query \in ItemQueries : Quiet /\ GetItems(1, method, query) /\ UNCHANGED ui
  \/ \E method \in Methods, path \in Paths : Quiet /\ NotFound(1, method, path) /\ UNCHANGED ui
  \/ \E line \in PayloadLines, type \in BodyErrors :
       Quiet /\ PayloadError(1, line.method, line.path, type) /\ UNCHANGED ui
  \/ Finish(1) /\ UNCHANGED ui
  \/ \E pid \in DeletablePatients : DeletePatient(pid) /\ UNCHANGED ui

SpecHttp == Init /\ [][NextHttp]_vars

(***************************************************************************)
(* The two list routes with a limit, on stores that POST /api/patients and *)
(* POST /api/doctors have filled beyond a hundred rows.                    *)
(***************************************************************************)
\* rows added to the seeded patients and to the seeded doctors
AddedRows == {0, 97, 130}

\* the patients table after n more POST /api/patients
PatientsAfter(n) ==
  [i \in 1..(5 + n) |->
     IF i \in DOMAIN SeedPatients THEN SeedPatients[i]
     ELSE [patient_code |-> generatePatientCode(20000 + i), full_name |-> <<"N">>,
           dob |-> NullStr, gender |-> NullStr, phone |-> NullStr, status |-> Stable]]

\* the doctors table after n more POST /api/doctors
DoctorsAfter(n) ==
  [i \in 1..(4 + n) |->
     IF i \in DOMAIN SeedDoctors THEN SeedDoctors[i]
     ELSE [department_id |-> 1, full_name |-> <<"D">>, specialty |-> NullStr,
           email |-> NullStr, phone |-> NullStr, status |-> Available]]

InitList ==
  /\ \E n \in AddedRows :
       /\ patients = PatientsAfter(n)
       /\ doctors = DoctorsAfter(n)
       /\ autoInc = [SeedAutoInc EXCEPT !.patients = 6 + n, !.doctors = 5 + n]
  /\ bills = SeedBills
  /\ items = SeedItems
  /\ now = StartNow
  /\ ticks = 0
  /\ pc = [p \in Requests |-> "idle"]
  /\ req = [p \in Requests |-> NoReq]
  /\ resp = [p \in Requests |-> NoResp]
  /\ ui = PageOpened

LimitInputs ==
  {[EmptyQuery EXCEPT !.limit = l] :
     l \in {Undef} \cup Strs({<<>>, <<"0">>, <<"1">>, <<"1","0">>, <<"9","9">>, <<"1","0","0">>,
                              <<"1","0","1">>, <<"1","0","0","0">>, <<"-","1">>,
                              <<"1",".","5">>, <<"a","b">>, InfinityLit})}

NextList ==
  \/ \E method \in Methods, query \in LimitInputs : GetPatients(1, method, query) /\ UNCHANGED ui
  \/ \E method \in Methods, query \in LimitInputs : GetDoctors(1, method, query) /\ UNCHANGED ui

SpecList == InitList /\ [][NextList]_vars

(***************************************************************************)
(* The billing page against the server: the handlers of the page issue     *)
(* their fetches on any free request, another client creates a bill dated  *)
(* after today, and the server runs the requests in flight.                *)
(***************************************************************************)
\* a bill another client posts with a bill_no and a bill_date of its own
LaterBill ==
  [EmptyBody EXCEPT !.patient_id = Num(JsInt(1)), !.bill_no = Str(<<"B","7">>),
                    !.bill_date = Str(<<"2","0","2","7","-","0","6","-","0","1">>)]

\* the patients the select of the Add Bill form offers
FormPatients == {1}

NextUi ==
  \/ \E p \in Requests : UiLoad(p)
  \/ \E p \in Requests : UiListLoaded(p)
  \/ \E p \in Requests : UiLoadItems(p)
  \/ \E p \in Requests : UiItemsLoaded(p)
  \/ \E p \in Requests, b \in DOMAIN bills : UiClick(p, b)
  \/ \E p \in Requests : UiClickLoaded(p)
  \/ \E p \in Requests, pid \in FormPatients : UiAddBill(p, pid)
  \/ \E p \in Requests : UiBillCreated(p)
  \/ \E p \in Requests : UiAddItem(p)
  \/ \E p \in Requests : UiItemPosted(p)
  \/ \E p \in Requests : UiRelist(p)
  \/ \E p \in Requests : UiRelisted(p)
  \/ \E p \in Requests : UiReloadItems(p)
  \/ \E p \in Requests : UiItemsReloaded(p)
  \/ \E p \in Requests : PostBill(p, LaterBill) /\ UNCHANGED ui
  \/ \E p \in Requests : PostItemRecompute(p) /\ UNCHANGED ui
  \/ \E p \in Requests : PostItemRespond(p) /\ UNCHANGED ui
  \/ \E p \in Requests : OtherFinish(p)

SpecUi == Init /\ [][NextUi]_vars

(***************************************************************************)
(* The billing page with bill-row clicks only: the page is loaded while    *)
(* nothing is in flight, and rows are clicked once it is loaded, so that   *)
(* between a click and its response only other clicks change the           *)
(* selection.                                                              *)
(***************************************************************************)
NextClicks ==
  \/ \E p \in Requests : AllFetchesCompleted(ui) /\ UiLoad(p)
  \/ \E p \in Requests : UiListLoaded(p)
  \/ \E p \in Requests : UiLoadItems(p)
  \/ \E p \in Requests : UiItemsLoaded(p)
  \/ \E p \in Requests, b \in DOMAIN bills :
       (\A q \in Requests : ui.await[q].k \in {"none", "click"}) /\ UiClick(p, b)
  \/ \E p \in Requests : UiClickLoaded(p)
  \/ \E p \in Requests : PostBill(p, LaterBill) /\ UNCHANGED ui
  \/ \E p \in Requests : OtherFinish(p)

SpecClicks == Init /\ [][NextClicks]_vars

(***************************************************************************)
(* Properties.                                                             *)
(***************************************************************************)
OpPatients == "POST /api/patients"

OpDoctors == "POST /api/doctors"

OpBilling == "POST /api/billing"

OpItems == "POST /api/billing/items"

\* the ids of the items of bill b
ItemsOf(its, b) == {i \in DOMAIN its : its[i].bill_id = b}

RECURSIVE WholeParts(_, _)
WholeParts(its, ids) ==
  IF ids = {} THEN 0
  ELSE LET i == CHOOSE j \in ids : TRUE
       IN its[i].qty * its[i].unit_price.w + WholeParts(its, ids \ {i})

RECURSIVE CentParts(_, _)
CentParts(its, ids) ==
  IF ids = {} THEN 0
  ELSE LET i == CHOOSE j \in ids : TRUE
       IN its[i].qty * its[i].unit_price.c + CentParts(its, ids \ {i})

\* the sum of qty * unit_price over the items of bill b, to two decimals
LineSum(its, b) ==
  LET w == WholeParts(its, ItemsOf(its, b))
      c == CentParts(its, ItemsOf(its, b))
  IN [over |-> FALSE, w |-> w + (c \div 100), c |-> c % 100]

TotalIsLineSum(b) == bills[b].total_amount = LineSum(items, b)

Done(p, op) == pc[p] = "done" /\ req[p].op = op

SeedStore ==
  /\ patients = SeedPatients
  /\ doctors = SeedDoctors
  /\ bills = SeedBills
  /\ items = SeedItems
  /\ autoInc = SeedAutoInc

NoAdditionInFlight == \A p \in Requests : pc[p] \notin {"recompute", "respond"}

\* C2: once all concurrent POST /api/billing/items requests have completed,
\* every bill's total_amount equals the full sum of qty * unit_price over its
\* items, whatever the interleaving of the INSERTs and recompute UPDATEs.
C2_NoLostUpdate ==
  NoAdditionInFlight => \A b \in DOMAIN bills : TotalIsLineSum(b)

\* C3: in every reachable state, the states between the INSERT and the
\* UPDATE of a request in flight included, every bill's total_amount equals
\* the sum of qty * unit_price over its items.
C3_TotalAlwaysIsSum == \A b \in DOMAIN bills : TotalIsLineSum(b)

IsWhole(x) == x.k = "fin" /\ x.m = 0

\* the handler of p has issued its INSERT
InsertIssued(p) ==
  /\ req[p].op = OpItems
  /\ pc[p] \in {"recompute", "respond"} \/ (pc[p] = "done" /\ resp[p].status # 400)

\* C5: whatever the body's qty, the quantity handed to the store by a
\* POST /api/billing/items that passes validation is an integer in
\* [1, 100000]: 1 for a qty of 0 or less, 100000 for a qty above 100000.
C5_QtyHandedIsClampedInteger ==
  \A p \in Requests :
    InsertIssued(p) =>
      LET given == req[p].body.qty
          qty == req[p].qty
      IN /\ IsWhole(qty) /\ ~qty.neg /\ qty.w >= 1 /\ qty.w <= 100000
         /\ (given.t = "num" /\ given.n.k = "fin" /\ (given.n.neg \/ IsZero(given.n)))
              => qty = JsInt(1)
         /\ (given.t = "num" /\ given.n.k = "fin" /\ ~given.n.neg /\ given.n.w > 100000)
              => qty = JsInt(100000)

\* the body names a bill and carries a description
HasBillAndDescription(body) ==
  /\ LET b == ToNumber(OrElse(body.bill_id, Num(JsInt(0)))) IN b.k # "nan" /\ ~IsZero(b)
  /\ body.description.t = "str" /\ Trim(body.description.s) # <<>>

\* the unit price of the body is negative or no finite number
PriceNegativeOrNotFinite(body) ==
  LET x == ToNumber(OrElse(body.unit_price, Num(JsInt(0)))) IN x.k # "fin" \/ x.neg

\* C6: a POST /api/billing/items with a bill_id and a description is answered
\* 400, with no store write, exactly when its unit_price (an absent one counting
\* as 0) is negative or not a finite number; any other is not rejected.
C6_UnitPriceRejectedExactlyWhenBad ==
  \A p \in Requests :
    (req[p].op = OpItems /\ HasBillAndDescription(req[p].body)) =>
      /\ pc[p] = "done" =>
           ((resp[p].status = 400) <=> PriceNegativeOrNotFinite(req[p].body))
      /\ (pc[p] = "done" /\ resp[p].status = 400) => SeedStore
      /\ pc[p] # "done" => ~PriceNegativeOrNotFinite(req[p].body)

\* an infinite unit price has been rejected
C6_Witness ==
  \E p \in Requests :
    /\ Done(p, OpItems) /\ HasBillAndDescription(req[p].body)
    /\ req[p].body.unit_price = Num(PosInf)
    /\ resp[p].status = 400 /\ resp[p].error = "unit_price must be >= 0"

\* the request of p is a POST /api/billing for an existing patient that
\* carries no bill_no
BillWithoutNumber(p) ==
  /\ Done(p, OpBilling)
  /\ req[p].body.bill_no = Undef
  /\ \E i \in DOMAIN patients : req[p].body.patient_id = Num(JsInt(i))

\* C7: two POST /api/billing requests without a bill_no both create their
\* bill, and the two bills carry distinct numbers, also within one millisecond.
C7_GeneratedBillNumbersDistinct ==
  \A p, q \in Requests :
    (p # q /\ BillWithoutNumber(p) /\ BillWithoutNumber(q)) =>
      /\ resp[p].status = 201 /\ resp[q].status = 201
      /\ resp[p].bill_no # resp[q].bill_no

\* C8: a successful POST /api/billing has inserted exactly one bill row, with
\* total_amount 0.00 whatever the body holds, and its 201 response carries the
\* id and the stored bill number of that row.
C8_BillCreatedWithZeroTotal ==
  \A p \in Requests :
    (Done(p, OpBilling) /\ resp[p].status = 201) =>
      LET id == resp[p].id IN
        /\ id \notin DOMAIN SeedBills
        /\ DOMAIN bills = DOMAIN SeedBills \cup {id}
        /\ \A i \in DOMAIN SeedBills : bills[i] = SeedBills[i]
        /\ bills[id].total_amount = [over |-> FALSE, w |-> 0, c |-> 0]
        /\ bills[id].bill_no = resp[p].bill_no
        /\ patients = SeedPatients /\ doctors = SeedDoctors /\ items = SeedItems

\* a bill has been created from a body that carries a total_amount
C8_Witness ==
  \E p \in Requests :
    /\ Done(p, OpBilling) /\ resp[p].status = 201
    /\ req[p].body.total_amount # Undef
    /\ resp[p].id \in DOMAIN bills

MissingOrZero(v) == v.t = "undef" \/ (v.t = "num" /\ v.n.k = "fin" /\ IsZero(v.n))

\* not a string with a character other than white space
NotNonBlank(v) == v.t # "str" \/ \A i \in 1..Len(v.s) : v.s[i] \in {" ", "\t", "\n"}

\* the request fails the validation of its handler
FailsValidation(op, body) ==
  \/ op = OpBilling /\ MissingOrZero(body.patient_id)
  \/ op = OpItems /\ (MissingOrZero(body.bill_id) \/ NotNonBlank(body.description))
  \/ op = OpPatients /\ NotNonBlank(body.full_name)
  \/ op = OpDoctors /\ (NotNonBlank(body.full_name) \/ MissingOrZero(body.department_id))

\* C9: a POST request that fails validation is answered 400 before any store
\* write (no table has changed): /api/billing with a missing or zero
\* patient_id, /api/billing/items with a missing or zero bill_id or a blank
\* description, /api/patients without a non-blank full_name, /api/doctors
\* without a non-blank full_name or with a missing or zero department_id.
C9_ValidationFailureWritesNothing ==
  \A p \in Requests :
    (req[p].op # "none" /\ FailsValidation(req[p].op, req[p].body)) =>
      /\ pc[p] = "done"
      /\ resp[p].status = 400
      /\ SeedStore

\* a doctor without department has been rejected
C9_Witness ==
  \E p \in Requests :
    /\ Done(p, OpDoctors)
    /\ ~NotNonBlank(req[p].body.full_name)
    /\ req[p].body.department_id = Num(JsInt(0))
    /\ resp[p].status = 400 /\ resp[p].error = "department_id is required"
    /\ SeedStore

FirstChars(s, n) == [i \in 1..(IF Len(s) < n THEN Len(s) ELSE n) |-> s[i]]

IsUpperLetter(c) == \E i \in 1..26 : UpperLetters[i] = c

\* C10: the currency stored by POST /api/billing is a 3-character upper-case
\* code: DZD when the currency is absent or blank, otherwise the trimmed input
\* cut to 3 characters and upper-cased.
C10_CurrencyIsThreeUpperCase ==
  \A p \in Requests :
    (Done(p, OpBilling) /\ resp[p].status = 201) =>
      LET given == req[p].body.currency
          stored == bills[resp[p].id].currency
      IN /\ Len(stored) = 3
         /\ \A i \in 1..Len(stored) : IsUpperLetter(stored[i])
         /\ (given.t = "undef" \/ (given.t = "str" /\ NotNonBlank(given)))
              => stored = <<"D","Z","D">>
         /\ (given.t = "str" /\ ~NotNonBlank(given))
              => stored = ToUpperCase(FirstChars(Trim(given.s), 3))

FourStatuses ==
  {<<"u","n","p","a","i","d">>, <<"p","a","i","d">>,
   <<"p","a","r","t","i","a","l","l","y","_","p","a","i","d">>, <<"v","o","i","d">>}

\* every stored bill has one of the four statuses
StatusInDomain == \A b \in DOMAIN bills : bills[b].status \in FourStatuses

\* no step changes the status of a stored bill
StatusNeverChanges ==
  \A b \in DOMAIN bills : b \in DOMAIN bills' /\ bills'[b].status = bills[b].status

\* C11 (as stated): every stored bill has a status in {unpaid, paid,
\* partially_paid, void}; POST /api/billing stores the requested status when it
\* is one of the four values and "unpaid" when the status is absent or any
\* other value.
C11_StatusStoredAsGivenOrUnpaid ==
  /\ StatusInDomain
  /\ \A p \in Requests :
       (Done(p, OpBilling) /\ resp[p].status = 201) =>
         LET given == req[p].body.status
             stored == bills[resp[p].id].status
         IN IF given.t = "str" /\ given.s \in FourStatuses
              THEN stored = given.s
              ELSE stored = <<"u","n","p","a","i","d">>

\* the status a bill is created with when the comparison ignores case
StoredIgnoringCase(given) ==
  IF given.t = "str" /\ ToLowerCase(given.s) \in FourStatuses
    THEN ToLowerCase(given.s)
    ELSE <<"u","n","p","a","i","d">>

\* C11 (amended): every stored bill has a status in {unpaid, paid,
\* partially_paid, void}; POST /api/billing compares the requested status
\* with the four values ignoring case and stores it in lower case when it
\* matches, "unpaid" when it is absent or matches none; no API operation
\* changes the status of a stored bill.
C11_StatusStoredIgnoringCase ==
  /\ [](/\ StatusInDomain
        /\ \A p \in Requests :
             (Done(p, OpBilling) /\ resp[p].status = 201) =>
               bills[resp[p].id].status = StoredIgnoringCase(req[p].body.status))
  /\ [][StatusNeverChanges]_vars

\* a bill has been created as "paid" from the requested status "Paid"
C11_Witness ==
  \E p \in Requests :
    /\ Done(p, OpBilling) /\ resp[p].status = 201
    /\ req[p].body.status = Str(<<"P","a","i","d">>)
    /\ bills[resp[p].id].status = <<"p","a","i","d">>

\* the rows of table the store can take the JSON value v to reference
Referenced(v, table) == ToIntColumn(ToNumber(OrElse(v, Num(JsInt(0))))) \cap DOMAIN table

DatabaseError(r) ==
  /\ r.status = 500
  /\ r.error = "Database error"
  /\ r.hint = "Check DB_* settings in .env and ensure hospital.mysql.sql is imported."

\* C12: a POST /api/billing/items that passes validation and whose bill_id
\* references no existing bill, and a POST /api/billing that passes validation
\* and whose patient_id references no existing patient, is answered with the
\* 500 "Database error" response, stores no row and changes no total_amount.
C12_MissingForeignKeyTargetIs500 ==
  [][\A p \in Requests :
       /\ (/\ pc[p] = "idle" /\ req'[p].op = OpItems /\ resp'[p].status # 400
           /\ Referenced(req'[p].body.bill_id, bills) = {})
            => /\ pc'[p] = "done" /\ DatabaseError(resp'[p])
               /\ items' = items /\ bills' = bills
       /\ (/\ pc[p] = "idle" /\ req'[p].op = OpBilling /\ resp'[p].status # 400
           /\ Referenced(req'[p].body.patient_id, patients) = {})
            => /\ pc'[p] = "done" /\ DatabaseError(resp'[p])
               /\ items' = items /\ bills' = bills
    ]_vars

\* an item for the bill 2, which does not exist, has been refused
C12_Witness ==
  \E p \in Requests :
    /\ Done(p, OpItems)
    /\ req[p].body.bill_id = Num(JsInt(2))
    /\ 2 \notin DOMAIN bills
    /\ DatabaseError(resp[p])
    /\ items = SeedItems /\ bills = SeedBills

OpGetItems == "GET /api/billing/items"

\* the handler of p sends its response in this step
Responds(p, op) == pc[p] = "idle" /\ pc'[p] = "done" /\ req'[p].op = op

\* the billId parameter is absent (or empty) or a string of zeros
ZeroOrAbsent(v) == v.t = "undef" \/ (v.t = "str" /\ \A i \in 1..Len(v.s) : v.s[i] = "0")

\* the bill a billId parameter names: a string of digits names the bill of
\* that id, any other string no bill (0)
NamedBill(v) == IF v.t = "str" /\ AllDigits(v.s) THEN DigitsToNat(v.s) ELSE 0

\* rows are exactly the items its stores for bill b, in ascending id order
IsItemListOf(rows, its, b) ==
  /\ {rows[n].id : n \in 1..Len(rows)} = ItemsOf(its, b)
  /\ \A m, n \in 1..Len(rows) : m < n => rows[m].id < rows[n].id
  /\ \A n \in 1..Len(rows) :
       /\ rows[n].description = its[rows[n].id].description
       /\ rows[n].qty = its[rows[n].id].qty
       /\ rows[n].unit_price = its[rows[n].id].unit_price

\* C13 (as stated): GET /api/billing/items answers 400 "billId is required"
\* only when billId is 0 or absent; for every other billId its answer (when
\* the store has not failed) is a list: the items of that bill in ascending
\* id order, empty when billId references no bill.
C13_RequiredOnlyWhenZeroOrAbsent ==
  [][\A p \in Requests :
       Responds(p, OpGetItems) =>
         LET given == req'[p].query.billId
             r == resp'[p]
         IN /\ r.status = 400 => ZeroOrAbsent(given)
            /\ (~ZeroOrAbsent(given) /\ r.status # 500)
                 => r.status = 200 /\ IsItemListOf(r.rows, items, NamedBill(given))
    ]_vars

\* the billId parameter is a string that Number() takes to NaN
NotANumber(v) == v.t = "str" /\ StringToNumber(v.s).k = "nan"

\* C13 (amended): GET /api/billing/items answers 400 "billId is required"
\* exactly when billId is absent, 0 or not a number; for every other billId
\* its answer (when the store has not failed) is a list: the items of that
\* bill in ascending id order, empty when billId references no bill.
C13_RequiredWhenZeroAbsentOrNaN ==
  [][\A p \in Requests :
       Responds(p, OpGetItems) =>
         LET given == req'[p].query.billId
             r == resp'[p]
         IN /\ r.status \in {200, 400, 500}
            /\ r.status = 400 <=> (ZeroOrAbsent(given) \/ NotANumber(given))
            /\ r.status = 400 => r.error = "billId is required"
            /\ r.status = 200 => IsItemListOf(r.rows, items, NamedBill(given))
    ]_vars

\* the items of bill 1 have been listed after an item was added to it
C13_Witness ==
  \E p \in Requests :
    /\ Done(p, OpGetItems)
    /\ req[p].query.billId = Str(<<"1">>)
    /\ resp[p].status = 200
    /\ Len(resp[p].rows) >= 3
    /\ resp[p].rows[1].id < resp[p].rows[2].id

\* the ten GET routes
GetOps ==
  {"GET /api/health", "GET /api/stats", "GET /api/patients", "GET /api/doctors",
   "GET /api/appointments", "GET /api/departments", "GET /api/pharmacy",
   "GET /api/laboratory", "GET /api/billing", "GET /api/billing/items"}

\* C14: a request handled by one of the ten GET routes leaves every table of
\* the store (and every AUTO_INCREMENT counter) unchanged, whatever its
\* answer: 200, 400 or 500.
C14_GetLeavesStoreUnchanged ==
  [][\A p \in Requests :
       (pc[p] = "idle" /\ pc'[p] # "idle" /\ req'[p].op \in GetOps) =>
         /\ pc'[p] = "done"
         /\ resp'[p].status \in {200, 400, 500}
         /\ patients' = patients /\ doctors' = doctors
         /\ bills' = bills /\ items' = items /\ autoInc' = autoInc
    ]_vars

\* the items of a bill whose total is not the sum of its items have been listed
C14_Witness ==
  \E p \in Requests :
    /\ Done(p, OpGetItems) /\ resp[p].status = 200
    /\ \E b \in DOMAIN bills :
         /\ JsInt(b) = req[p].billId
         /\ bills[b].total_amount # LineSum(items, b)
         /\ Len(resp[p].rows) = Cardinality(ItemsOf(items, b))

OpGetPatients == "GET /api/patients"

OpGetDoctors == "GET /api/doctors"

Smaller(a, b) == IF a < b THEN a ELSE b

\* the limit the claim gives for the parameter v: min(N, 100), N being the
\* default when v is absent (or empty)
ClaimedLimit(v, default) ==
  IF v.t = "undef" \/ v = Str(<<>>) THEN Smaller(default, 100)
  ELSE Smaller(DigitsToNat(v.s), 100)

\* the rows of a list response are min(limit used, rows of the table), and
\* the limit is the claimed one when the parameter is absent or a whole number
LimitIsClamped(p, default, table) ==
  LET given == req[p].query.limit
      rows == resp[p].rows
  IN /\ Len(rows) <= 100
     /\ (given.t = "undef" \/ given = Str(<<>>) \/ AllDigits(given.s)) =>
          /\ req[p].lq = JsInt(ClaimedLimit(given, default))
          /\ resp[p].status = 200 =>
               Len(rows) = Smaller(ClaimedLimit(given, default), Cardinality(DOMAIN table))

\* C15: GET /api/patients?limit=N and GET /api/doctors?limit=N never return
\* more than 100 rows; the limit used is min(N, 100), N being 10 for patients
\* and 20 for doctors when the parameter is absent.
C15_ListLimitClampedTo100 ==
  \A p \in Requests :
    /\ Done(p, OpGetPatients) => LimitIsClamped(p, 10, patients)
    /\ Done(p, OpGetDoctors) => LimitIsClamped(p, 20, doctors)

\* limit=1000 on a table of more than 100 patients has returned 100 rows
C15_Witness ==
  \E p \in Requests :
    /\ Done(p, OpGetPatients)
    /\ req[p].query.limit = Str(<<"1","0","0","0">>)
    /\ Cardinality(DOMAIN patients) > 100
    /\ resp[p].status = 200 /\ Len(resp[p].rows) = 100

\* C16: every response sent for a request under /api carries
\* Cache-Control: no-store, whatever the outcome: 200 or 201, a validation
\* failure (400), a store failure (500), no route (404), a refused body
\* (413, 400 or 500).
C16_EveryResponseIsNoStore ==
  \A p \in Requests :
    pc[p] = "done" =>
      /\ resp[p].status \in {200, 201, 400, 404, 413, 500}
      /\ resp[p].cache = "no-store"

\* a body above the size limit, sent to a path without route, has been
\* answered 413
C16_Witness ==
  \E p \in Requests :
    /\ pc[p] = "done"
    /\ req[p].bodyError = "entity.too.large" /\ req[p].path = "/api/unknown"
    /\ resp[p].status = 413 /\ resp[p].cache = "no-store"

\* the fourteen routes of the interface
FourteenRoutes ==
  GetOps \cup {"POST /api/patients", "POST /api/doctors", "POST /api/billing",
              "POST /api/billing/items"}

\* method and path match one of the fourteen routes, a HEAD request counting
\* as the GET of its path
MatchesARoute(method, path) ==
  (IF method = "HEAD" THEN "GET" ELSE method) \o " " \o path \in FourteenRoutes

\* the request p takes in this step is answered 404 "Not found", the store
\* untouched
AnsweredNotFound(p) ==
  /\ pc'[p] = "done"
  /\ resp'[p].status = 404 /\ resp'[p].error = "Not found" /\ resp'[p].hint = ""
  /\ UNCHANGED store

\* p takes a request under /api in this step
Takes(p) == pc[p] = "idle" /\ pc'[p] # "idle"

\* C17 (as stated): every request under /api whose method and path match
\* none of the fourteen routes is answered 404 {"error": "Not found"}, with
\* no store access.
C17_UnmatchedIs404 ==
  [][\A p \in Requests :
       (Takes(p) /\ ~MatchesARoute(req'[p].method, req'[p].path)) => AnsweredNotFound(p)
    ]_vars

\* C17 (amended): every request under /api whose body, if it has one, is
\* accepted by express.json() and whose method and path match none of the
\* fourteen routes is answered 404 {"error": "Not found"}, with no store
\* access.
C17_UnmatchedWithAcceptedBodyIs404 ==
  [][\A p \in Requests :
       (Takes(p) /\ ~MatchesARoute(req'[p].method, req'[p].path) /\ req'[p].bodyError = "")
         => AnsweredNotFound(p)
    ]_vars

\* a DELETE on the path of a route has been answered 404
C17_Witness ==
  \E p \in Requests :
    /\ pc[p] = "done"
    /\ req[p].method = "DELETE" /\ req[p].path = "/api/patients"
    /\ resp[p].status = 404 /\ resp[p].error = "Not found"

\* the messages of the validation failures of a route
ValidationMessages(op) ==
  IF op = OpPatients THEN {"full_name is required"}
  ELSE IF op = OpDoctors THEN {"full_name is required", "department_id is required"}
  ELSE IF op = OpBilling THEN {"patient_id is required"}
  ELSE IF op = OpItems
    THEN {"bill_id is required", "description is required", "unit_price must be >= 0"}
  ELSE IF op = OpGetItems THEN {"billId is required"}
  ELSE {}

\* the body { error, hint } of every store failure, and nothing else
UniformDatabaseError(r) ==
  r = [status |-> 500, cache |-> "no-store", id |-> 0, bill_no |-> <<>>,
       patient_code |-> <<>>, rows |-> <<>>, error |-> "Database error",
       hint |-> "Check DB_* settings in .env and ensure hospital.mysql.sql is imported."]

\* C18: every failed API request has a body {"error": <message>}; a request
\* taken by a route either succeeds, or fails validation (400, a message
\* naming the field, no hint), or fails in the store, and every store failure,
\* whatever its cause, is answered 500 with "Database error" and the hint.
C18_ErrorBodiesAreUniform ==
  \A p \in Requests :
    pc[p] = "done" =>
      /\ resp[p].status >= 400 => resp[p].error # ""
      /\ req[p].op \in FourteenRoutes =>
           \/ resp[p].status \in {200, 201} /\ resp[p].error = ""
           \/ /\ resp[p].status = 400
              /\ resp[p].error \in ValidationMessages(req[p].op)
              /\ resp[p].hint = ""
           \/ UniformDatabaseError(resp[p])

\* an addition whose recompute UPDATE failed has been answered 500
C18_Witness ==
  \E p \in Requests :
    /\ Done(p, OpItems)
    /\ req[p].insertId \in DOMAIN items
    /\ UniformDatabaseError(resp[p])

\* a handler of the API takes a step
ApiStep == \E p \in Requests : pc'[p] # pc[p]

\* the bill row b keeps everything but its total
SameBill(b) == [bills'[b] EXCEPT !.total_amount = bills[b].total_amount] = bills[b]

\* C19: a step of the API deletes no bill and no item and modifies no item
\* and nothing of a bill but its total: bills and the items of each bill only
\* grow.  A bill disappears only in a step that deletes the patient who owns
\* it, together with all its items, and an item only together with its bill.
C19_BillsAndItemsOnlyGrow ==
  [][/\ ApiStep =>
          /\ \A b \in DOMAIN bills : b \in DOMAIN bills'
          /\ \A i \in DOMAIN items : i \in DOMAIN items'
     /\ \A b \in DOMAIN bills \cap DOMAIN bills' : SameBill(b)
     /\ \A i \in DOMAIN items \cap DOMAIN items' : items'[i] = items[i]
     /\ \A b \in DOMAIN bills \ DOMAIN bills' :
          /\ bills[b].patient_id \in DOMAIN patients \ DOMAIN patients'
          /\ \A i \in ItemsOf(items, b) : i \notin DOMAIN items'
     /\ \A i \in DOMAIN items \ DOMAIN items' : items[i].bill_id \notin DOMAIN bills'
    ]_vars

\* the owner of the seeded bill has been deleted once an item had been added
\* to the bill: the bill, its seeded items and the added item are gone
C19_Witness ==
  \E p \in Requests :
    /\ Done(p, OpItems) /\ resp[p].status = 201
    /\ req[p].billId = JsInt(1)
    /\ 1 \notin DOMAIN patients
    /\ 1 \notin DOMAIN bills
    /\ \A i \in DOMAIN SeedItems \cup {resp[p].id} : i \notin DOMAIN items

\* the bills a POST /api/billing/items request with the bill id x is for
BillsNamed(x) == {b \in DOMAIN bills : b \in ToIntColumn(x)}

\* C20: every step of a POST /api/billing/items request for a bill A (its
\* INSERT, its recompute UPDATE, its response, whether it succeeds or fails,
\* other requests in flight) leaves the items and the total_amount of every
\* other bill B as they were.
C20_OtherBillsUntouched ==
  [][\A p \in Requests :
       (pc'[p] # pc[p] /\ req'[p].op = OpItems) =>
         \A B \in DOMAIN bills \ BillsNamed(req'[p].billId) :
           /\ B \in DOMAIN bills'
           /\ bills'[B].total_amount = bills[B].total_amount
           /\ ItemsOf(items', B) = ItemsOf(items, B)
           /\ \A i \in ItemsOf(items, B) : items'[i] = items[i]
    ]_vars

\* two requests in flight, one for the seeded bill and one for a second bill:
\* each has inserted its item and neither has recomputed its total yet
C20_Witness ==
  \E p, q \in Requests :
    /\ pc[p] = "recompute" /\ req[p].billId = JsInt(1)
    /\ pc[q] = "recompute" /\ req[q].billId = JsInt(2)
    /\ req[p].insertId \in ItemsOf(items, 1)
    /\ req[q].insertId \in ItemsOf(items, 2)

\* the statements of the log of p are the first ones of its handler, in order
IssuedInOrder(p) ==
  LET log == req[p].stmts
      all == StatementsOf(req[p].op)
  IN /\ Len(log) <= Len(all)
     /\ \A n \in 1..Len(log) : log[n].sql = all[n]

\* a failed statement is the last one issued and the request has ended with 500
FailureEnds(p) ==
  \A n \in 1..Len(req[p].stmts) :
    ~req[p].stmts[n].ok =>
      /\ n = Len(req[p].stmts)
      /\ pc[p] = "done"
      /\ resp[p].status = 500

\* a response has been sent exactly when the handler has ended, and then every
\* statement of the handler was issued unless the request was refused or failed
AnsweredAtEnd(p) ==
  /\ resp[p].status # 0 <=> pc[p] = "done"
  /\ resp[p].status \in {200, 201} =>
        /\ Len(req[p].stmts) = Len(StatementsOf(req[p].op))
        /\ \A n \in 1..Len(req[p].stmts) : req[p].stmts[n].ok

\* a response, once sent, is the response of the request until the client has
\* taken it, and no statement is issued after it
AnsweredOnce(p) ==
  resp[p].status # 0 =>
    \/ resp'[p] = resp[p] /\ req'[p] = req[p]
    \/ resp'[p] = NoResp /\ pc'[p] = "idle"

\* the handler of p, suspended at an await, goes on
Resume(p) == PostItemRecompute(p) \/ PostItemRespond(p)

\* a handler that has not answered yet can go on, whatever the store holds
NeverStuck(p) == pc[p] \in {"recompute", "respond"} => ENABLED Resume(p)

\* each step of a handler brings it nearer to its response
Advances(p) ==
  pc'[p] # pc[p] =>
    \/ pc[p] = "idle" /\ pc'[p] \in {"recompute", "done"}
    \/ pc[p] = "recompute" /\ pc'[p] \in {"respond", "done"}
    \/ pc[p] = "respond" /\ pc'[p] = "done"
    \/ pc[p] = "done" /\ pc'[p] = "idle"

\* C21: every request receives exactly one response within the request: each
\* statement of its handler is issued at most once and in the handler's
\* order, a statement that fails is the last one issued and ends the request
\* with a 500 response, a handler whose statement has returned can always go
\* on and each of its steps brings it nearer to the response, and a response
\* once sent is never replaced.
C21_OneResponseNoRetry ==
  /\ [](\A p \in Requests :
          IssuedInOrder(p) /\ FailureEnds(p) /\ AnsweredAtEnd(p) /\ NeverStuck(p))
  /\ [][\A p \in Requests : AnsweredOnce(p) /\ Advances(p)]_vars

\* an item addition whose INSERT returned and whose UPDATE failed: answered 500
\* with both statements issued once
C21_Witness ==
  \E p \in Requests :
    /\ pc[p] = "done" /\ resp[p].status = 500
    /\ req[p].stmts = <<Executed("INSERT"), Failed("UPDATE")>>

\* C22: a POST /api/billing/items request answered with an error (400 or 500)
\* has left the store as it was: the step that sends the error changes no
\* item and no bill, and no item the request inserted is stored.
C22_ErrorLeavesStoreUnchanged ==
  /\ [](\A p \in Requests :
          (Done(p, OpItems) /\ resp[p].status \in {400, 500}) =>
            req[p].insertId \notin DOMAIN items)
  /\ [][\A p \in Requests :
          (pc'[p] = "done" /\ pc[p] # "done" /\ req'[p].op = OpItems
             /\ resp'[p].status \in {400, 500}) =>
            items' = items /\ bills' = bills]_vars

\* a <= b for two amounts that fit DECIMAL(10,2)
AtMost(a, b) == a.w < b.w \/ (a.w = b.w /\ a.c <= b.c)

\* a stored amount is a DECIMAL(10,2) value that is not negative
IsAmount(a) == ~a.over /\ a.w \in 0..DecMaxWhole /\ a.c \in 0..99

\* every stored line is a quantity of at least 1 at a price that is not negative
LinesNotNegative ==
  \A i \in DOMAIN items : items[i].qty >= 1 /\ IsAmount(items[i].unit_price)

\* C23: under any interleaving of the API requests each bill's total_amount
\* is never negative and never decreases: a bill is created with 0.00, every
\* stored line is at least 1 times a price that is not negative, and no step
\* (the recompute UPDATE of an item addition included) lowers a stored total.
C23_TotalNeverDecreases ==
  /\ [](LinesNotNegative /\ \A b \in DOMAIN bills : IsAmount(bills[b].total_amount))
  /\ [][/\ \A b \in DOMAIN bills :
             b \in DOMAIN bills' /\ AtMost(bills[b].total_amount, bills'[b].total_amount)
        /\ \A b \in DOMAIN bills' \ DOMAIN bills : bills'[b].total_amount = DecZero
       ]_vars

\* two item additions to the seeded bill have completed, each having raised
\* the stored total, beside a bill created with 0.00
C23_Witness ==
  /\ \E p, q \in Requests :
       /\ p # q
       /\ Done(p, OpItems) /\ resp[p].status = 201 /\ req[p].billId = JsInt(1)
       /\ Done(q, OpItems) /\ resp[q].status = 201 /\ req[q].billId = JsInt(1)
  /\ AtMost(SeedBills[1].total_amount, bills[1].total_amount)
  /\ bills[1].total_amount # SeedBills[1].total_amount
  /\ \E b \in DOMAIN bills \ DOMAIN SeedBills : bills[b].total_amount = DecZero

\* the handler of p, a POST /api/billing, ends in this step having passed its
\* INSERT to the store with a bill_no that a stored bill carries
InsertsTakenBillNo(p) ==
  /\ Responds(p, OpBilling)
  /\ req'[p].stmts # <<>>
  /\ \E b \in DOMAIN bills : bills[b].bill_no = BillNoOf(req'[p].body, now)

\* C24: the bill numbers of the stored bills are pairwise distinct in every
\* state, and a POST /api/billing that reaches the store with the bill_no,
\* given or generated, of a stored bill is answered 500 and stores no bill,
\* other requests being in flight or not.
C24_BillNumbersDistinct ==
  /\ [](\A a, b \in DOMAIN bills : a # b => bills[a].bill_no # bills[b].bill_no)
  /\ [][\A p \in Requests :
          InsertsTakenBillNo(p) => resp'[p].status = 500 /\ bills' = bills]_vars

\* two requests with the same bill_no handled at the same time, one answered
\* 201 and one 500: one bill carries the number
C24_Witness ==
  \E p, q \in Requests :
    /\ Done(p, OpBilling) /\ resp[p].status = 201
    /\ Done(q, OpBilling) /\ resp[q].status = 500
    /\ BillNoOf(req[q].body, now) = resp[p].bill_no
    /\ Cardinality({b \in DOMAIN bills : bills[b].bill_no = resp[p].bill_no}) = 1

\* no item without its bill, no bill without its patient
NoOrphan ==
  /\ \A i \in DOMAIN items : items[i].bill_id \in DOMAIN bills
  /\ \A b \in DOMAIN bills : bills[b].patient_id \in DOMAIN patients

\* a step that removes a patient removes the patient's bills and their items
CascadesFrom(pid) ==
  /\ \A b \in DOMAIN bills : bills[b].patient_id = pid => b \notin DOMAIN bills'
  /\ \A i \in DOMAIN items :
       bills[items[i].bill_id].patient_id = pid => i \notin DOMAIN items'

\* C25: in every state every billing item references a stored bill and every
\* bill a stored patient; the deletion of a patient removes the patient's
\* bills and the items of those bills, also when it falls between the INSERT
\* and the UPDATE of an item addition or before a bill creation.
C25_NoOrphanItemOrBill ==
  /\ []NoOrphan
  /\ [][\A pid \in DOMAIN patients \ DOMAIN patients' : CascadesFrom(pid)]_vars

\* the owner of the seeded bill was deleted between the INSERT and the UPDATE
\* of an item addition to that bill: the inserted item is gone with the bill
C25_Witness ==
  \E p \in Requests :
    /\ pc[p] = "recompute" /\ req[p].op = OpItems
    /\ req[p].billId = JsInt(1)
    /\ req[p].insertId # 0 /\ req[p].insertId \notin DOMAIN items
    /\ 1 \notin DOMAIN patients /\ 1 \notin DOMAIN bills

\* the request of p is an item addition that passed validation: its INSERT
\* was issued, with a quantity in [1, 100000] and a finite price >= 0
AcceptedItem(p) ==
  /\ req[p].op = OpItems /\ req[p].stmts # <<>>
  /\ req[p].qty.k = "fin" /\ ~Less(req[p].qty, JsInt(QtyMin)) /\ ~Less(JsInt(QtyMax), req[p].qty)
  /\ IsFinite(req[p].unitPrice) /\ ~Less(req[p].unitPrice, JsInt(0))

\* C26: for every item accepted by validation, after any additions, the
\* unit_price fits its DECIMAL(10,2) column and the re-summed total of every
\* bill fits total_amount, so no statement of the request fails for range (a
\* statement fails only for a missing bill or too long a description).
C26_AcceptedItemsFitColumns ==
  \A p \in Requests :
    AcceptedItem(p) =>
      /\ ToDecimalColumn(req[p].unitPrice) # {}
      /\ \A b \in DOMAIN bills : ~ItemsTotal(items, b).over
      /\ \A n \in 1..Len(req[p].stmts) :
           ~req[p].stmts[n].ok =>
             \/ \E b \in ToIntColumn(req[p].billId) : b \notin DOMAIN bills
             \/ Len(DescriptionOf(req[p].body)) > 200

\* C27: whatever the limit parameter of GET /api/patients and GET
\* /api/doctors, the value interpolated into the LIMIT clause is a whole
\* number from 0 to 100: the statement is one the server accepts.
C27_LimitIsWellFormed ==
  \A p \in Requests :
    (Done(p, OpGetPatients) \/ Done(p, OpGetDoctors)) =>
      /\ LimitAccepted(req[p].lq)
      /\ ~Less(JsInt(LimitMax), req[p].lq)

(***************************************************************************)
(* C28: in the billing page, once the item fetches of a sequence of        *)
(* bill-row clicks have all completed, in whatever order, the item list    *)
(* displayed and its "Items for <bill>" subtitle are those of the          *)
(* selected bill (selectedBillId / selectedBillNo), the bill the Add Item  *)
(* form posts to.  Stated for the step that completes the last fetch in    *)
(* flight, when that fetch is one of a click and it succeeded.             *)
(***************************************************************************)
\* the items displayed and the subtitle are those of the selected bill
ShowsSelected(page) ==
  page.shownFor = page.selectedBillId /\ page.subtitle = page.selectedBillNo

LastClickLoaded(p) ==
  /\ UiClickLoaded(p)
  /\ resp[p].status = 200
  /\ AllFetchesCompleted(ui')

C28_ShownItemsAreOfSelectedBill ==
  [][\A p \in Requests : LastClickLoaded(p) => ShowsSelected(ui')]_vars

(***************************************************************************)
(* C29: after a bill is created through the Add Bill form and the refresh  *)
(* of the page that follows has completed, the selected bill is the        *)
(* created bill, whatever other bills the store holds.  Stated for the     *)
(* step of that refresh that takes the list of bills and sets the          *)
(* selection; nothing later in the refresh changes it.                     *)
(***************************************************************************)
\* the refresh the Add Bill handler called takes the list of bills
RefreshAfterAddBill(p) ==
  /\ UiListLoaded(p)
  /\ ui.await[p].created # 0
  /\ resp[p].status = 200

C29_CreatedBillStaysSelected ==
  [][\A p \in Requests :
       RefreshAfterAddBill(p) =>
         /\ ui'.selectedBillId = ui.await[p].created
         /\ ui'.selectedBillNo = bills[ui.await[p].created].bill_no]_vars

====
